---- MODULE Spec2Model ----
(***************************************************************************)
(* Model of the claria-provisioner reconciliation engine:                  *)
(*   plan()    crates/claria-provisioner/src/orchestrate.rs                *)
(*   execute() crates/claria-provisioner/src/orchestrate.rs                *)
(*   flush()   crates/claria-provisioner/src/persistence.rs                *)
(* driven the way the desktop `apply` command drives them                  *)
(* (load state, plan, execute, re-plan), or with a plan handed to execute  *)
(* by its caller.                                                          *)
(***************************************************************************)
EXTENDS Integers, Sequences, FiniteSets, TLC

\* ---------------------------------------------------------------------------
\* Bounds of the model
\* ---------------------------------------------------------------------------

\* Longest plan a caller hands to execute() without going through plan().
MaxCallerPlanLen == 3

\* Largest manifest_version a stored state file carries on entry.
MaxStoredVersion == 1

\* ---------------------------------------------------------------------------
\* Option<T>: None is the empty sequence, Some(v) the one-element sequence.
\* ---------------------------------------------------------------------------
None == <<>>

Some(v) == <<v>>

\* ---------------------------------------------------------------------------
\* Manifest data
\* ---------------------------------------------------------------------------

\* Manifest::VERSION
VERSION == 1

ResourceAddr(t, n) == [resource_type |-> t, resource_name |-> n]

\* ResourceSpec::addr
addr(spec) == ResourceAddr(spec.resource_type, spec.resource_name)

\* The syncer list handed to plan() and execute(): one Data precondition
\* followed by two Managed resources, in manifest order.
Syncers ==
    << [resource_type |-> "iam_user", resource_name |-> "claria-admin",
        lifecycle |-> "Data", severity |-> "Info"],
       [resource_type |-> "s3_bucket", resource_name |-> "data",
        lifecycle |-> "Managed", severity |-> "Normal"],
       [resource_type |-> "s3_bucket_encryption", resource_name |-> "data",
        lifecycle |-> "Managed", severity |-> "Normal"] >>

SyncerAddrs == {addr(Syncers[i]) : i \in 1..Len(Syncers)}

\* Addresses a state file may hold that no syncer of the list covers.
OrphanAddrs ==
    {ResourceAddr("s3_bucket", "old-bucket"),
     ResourceAddr("cloudtrail_trail", "old-trail")}

ManagedAddrs == {addr(Syncers[i]) : i \in {j \in 1..Len(Syncers) : Syncers[j].lifecycle = "Managed"}}

AllAddrs == SyncerAddrs \cup OrphanAddrs

\* ResourceSpec::orphaned
orphaned(a) ==
    [resource_type |-> a.resource_type, resource_name |-> a.resource_name,
     lifecycle |-> "Managed", severity |-> "Destructive"]

\* syncer_map.get(&addr): the syncers registered for an address.
syncer_map(a) == {i \in 1..Len(Syncers) : addr(Syncers[i]) = a}

HasSyncer(a) == syncer_map(a) # {}

SyncerOf(a) == Syncers[CHOOSE i \in syncer_map(a) : TRUE]

\* ---------------------------------------------------------------------------
\* AWS as the syncers see it
\* ---------------------------------------------------------------------------
AwsValues == {"absent", "drifted", "insync"}

\* ResourceSyncer::read - None when the resource does not exist.
read(world, a) == IF world[a] = "absent" THEN None ELSE Some(world[a])

\* ResourceSyncer::diff - empty when the read value matches spec.desired.
diff(v) ==
    IF v = "insync" THEN <<>>
    ELSE << [field |-> "f", expected |-> "insync", actual |-> v] >>

\* ---------------------------------------------------------------------------
\* ProvisionerState
\* ---------------------------------------------------------------------------
ResourceState(spec, status, props) ==
    [resource_type |-> spec.resource_type, resource_id |-> spec.resource_name,
     status |-> status, properties |-> props]

StoredRecord(a) ==
    [resource_type |-> a.resource_type, resource_id |-> a.resource_name,
     status |-> "Created", properties |-> "props_stored"]

insert(resources, a, rec) ==
    [k \in DOMAIN resources \cup {a} |-> IF k = a THEN rec ELSE resources[k]]

remove(resources, a) ==
    [k \in DOMAIN resources \ {a} |-> resources[k]]

\* serde_json::to_vec_pretty(state) succeeds. serde_json writes a map only when
\* every key serialises as a string; ResourceAddr derives Serialize as a
\* struct, which the map-key serialiser rejects ("key must be a string"), so
\* only a state whose resources map is empty has a JSON form.
serializable(st) == DOMAIN st.resources = {}

\* What the state files hold when a caller enters with state st: st itself
\* if it has a JSON form, otherwise the last state that could be written.
LastPersisted(st) ==
    IF serializable(st) THEN st
    ELSE [resources |-> [a \in {} |-> a], manifest_version |-> st.manifest_version]

\* ---------------------------------------------------------------------------
\* plan()
\* ---------------------------------------------------------------------------
\* Variant: a stored version below Manifest::VERSION is not seen as an upgrade.
manifest_upgraded_none_only(st) == st.manifest_version = None

manifest_upgraded(st) ==
    \/ st.manifest_version = None
    \/ st.manifest_version # None /\ st.manifest_version[1] < VERSION

PlanEntry(spec, action, cause, drift) ==
    [spec |-> spec, action |-> action, cause |-> cause, drift |-> drift]

\* Cause of an entry whose resource exists (orchestrate.rs 49-55 and 82-88).
DriftCause(st, drift) ==
    IF drift = <<>> THEN "InSync"
    ELSE IF manifest_upgraded(st) THEN "ManifestChanged"
    ELSE "Drift"

\* Variant: the known_addrs test is dropped from the Create cause.
CreateCause_ignores_known(spec, st) ==
    IF ~manifest_upgraded(st) THEN "FirstProvision" ELSE "ManifestChanged"

\* Cause of a Create entry (orchestrate.rs 64-68).
CreateCause(spec, st) ==
    IF ~manifest_upgraded(st) \/ addr(spec) \in DOMAIN st.resources
    THEN "FirstProvision"
    ELSE "ManifestChanged"

\* Variant: the lifecycle of the spec is not looked at; a Data spec is planned
\* like a Managed one.
SpecEntry_any_lifecycle(spec, actual, st) ==
    IF actual = None
    THEN PlanEntry(spec, "Create", CreateCause(spec, st), <<>>)
    ELSE LET drift == diff(actual[1])
         IN PlanEntry(spec,
                      IF drift = <<>> THEN "Ok" ELSE "Modify",
                      DriftCause(st, drift),
                      drift)

\* The entry plan() builds for one syncer from its read result.
SpecEntry(spec, actual, st) ==
    IF spec.lifecycle = "Data" /\ actual = None
    THEN PlanEntry(spec, "PreconditionFailed", "Drift", <<>>)
    ELSE IF spec.lifecycle = "Data"
    THEN LET drift == diff(actual[1])
         IN PlanEntry(spec,
                      IF drift = <<>> THEN "Ok" ELSE "PreconditionFailed",
                      DriftCause(st, drift),
                      drift)
    ELSE IF actual = None
    THEN PlanEntry(spec, "Create", CreateCause(spec, st), <<>>)
    ELSE LET drift == diff(actual[1])
         IN PlanEntry(spec,
                      IF drift = <<>> THEN "Ok" ELSE "Modify",
                      DriftCause(st, drift),
                      drift)

\* Variant: the orphan pass forgets the manifest_addrs filter.
Orphans_unfiltered(st) == DOMAIN st.resources

\* Addresses the orphan pass emits an entry for.
Orphans(st) == DOMAIN st.resources \ SyncerAddrs

OrphanEntry(a) == PlanEntry(orphaned(a), "Delete", "Orphaned", <<>>)

\* The orders in which state.resources.keys() can hand out the orphans
\* (HashMap iteration order is unspecified).
KeyOrders(S) ==
    {f \in [1..Cardinality(S) -> S] : \A i, j \in 1..Cardinality(S) : f[i] = f[j] => i = j}

\* plan(syncers, state) for one iteration order of the state's keys.
plan(st, world, order) ==
    [i \in 1..Len(Syncers) |-> SpecEntry(Syncers[i], read(world, addr(Syncers[i])), st)]
    \o [i \in 1..Len(order) |-> OrphanEntry(order[i])]


\* ---------------------------------------------------------------------------
\* State of one run
\* ---------------------------------------------------------------------------
VARIABLES
    aws,          \* AWS as the syncers read it: address -> absent | drifted | insync
    state,        \* the in-memory ProvisionerState
    local,        \* the local state file (persistence.local_path)
    remote,       \* the remote state object (_state/provisioner.json)
    entries,      \* the plan handed to execute()
    planSrc,      \* "planner": entries came from plan(); "caller": built by the caller
    pc,           \* position of the run
    phase,        \* execute(): create | modify | delete | stamp
    idx,          \* execute(): position in the current phase's list
    calls,        \* every syncer create/update/destroy invoked by execute(), in order
    nFlush,       \* number of flush() calls made by execute()
    nMut,         \* mutations completed by execute() so far
    persistedMut, \* value of nMut when the local file was last written
    onEntry,      \* the state execute() was entered with
    result,       \* what the run returned
    replan        \* the plan computed after execute() returned Ok

vars ==
    <<aws, state, local, remote, entries, planSrc, pc, phase, idx, calls,
      nFlush, nMut, persistedMut, onEntry, result, replan>>

\* Stored manifest_version values: None or Some(v).
StoredVersions == {None} \cup {Some(v) : v \in 0..MaxStoredVersion}

\* States a state file can hold on entry, for a given set of recorded addresses.
StoredState(S, mv) ==
    [resources |-> [a \in S |-> StoredRecord(a)], manifest_version |-> mv]

\* Plans a caller can hand to execute() directly.
CallerEntries ==
    {PlanEntry(IF HasSyncer(a) THEN SyncerOf(a) ELSE orphaned(a), act,
               IF act = "Delete" THEN "Orphaned" ELSE "Drift", <<>>) :
        a \in ManagedAddrs \cup {ResourceAddr("s3_bucket", "old-bucket"),
                                 ResourceAddr("iam_user", "claria-admin")},
        act \in {"Create", "Modify", "Delete"}}

CallerPlans == UNION {[1..n -> CallerEntries] : n \in 1..MaxCallerPlanLen}

\* The desktop `apply` command: state loaded, nothing planned yet.
InitApply ==
    /\ aws \in [SyncerAddrs -> AwsValues]
    /\ \E S \in SUBSET (ManagedAddrs \cup OrphanAddrs), mv \in StoredVersions :
          state = StoredState(S, mv)
    /\ entries = <<>>
    /\ planSrc = "planner"
    /\ pc = "idle"

\* execute() called with a plan of the caller's making.
InitExecute ==
    /\ aws = [a \in SyncerAddrs |-> "insync"]
    /\ \E S \in {{}, {ResourceAddr("s3_bucket", "data")},
                  {ResourceAddr("s3_bucket", "old-bucket")}, ManagedAddrs,
                  ManagedAddrs \cup {ResourceAddr("s3_bucket", "old-bucket")}} :
          state = StoredState(S, Some(VERSION))
    /\ entries \in CallerPlans
    /\ planSrc = "caller"
    /\ pc = "planned"

Init ==
    /\ InitApply \/ InitExecute
    /\ local = LastPersisted(state)
    /\ remote = LastPersisted(state)
    /\ phase = "none"
    /\ idx = 0
    /\ calls = <<>>
    /\ nFlush = 0
    /\ nMut = 0
    /\ persistedMut = 0
    /\ onEntry = state
    /\ result = "running"
    /\ replan = <<>>


\* ---------------------------------------------------------------------------
\* plan(), as the `apply` command calls it
\* ---------------------------------------------------------------------------

\* plan() returns Ok(entries): every read succeeded.
Plan ==
    /\ pc = "idle"
    /\ \E order \in KeyOrders(Orphans(state)) : entries' = plan(state, aws, order)
    /\ pc' = "planned"
    /\ UNCHANGED <<aws, state, local, remote, planSrc, phase, idx, calls, nFlush,
                   nMut, persistedMut, onEntry, result, replan>>

\* plan() returns Err: a syncer's read failed (`syncer.read().await?`).
PlanReadError ==
    /\ pc = "idle"
    /\ pc' = "error"
    /\ result' = "read_err"
    /\ UNCHANGED <<aws, state, local, remote, entries, planSrc, phase, idx, calls,
                   nFlush, nMut, persistedMut, onEntry, replan>>

\* ---------------------------------------------------------------------------
\* execute()
\* ---------------------------------------------------------------------------
Reverse(s) == [i \in 1..Len(s) |-> s[Len(s) + 1 - i]]

\* entries.iter().filter(|e| e.action == act), as positions in the plan.
Positions(act) ==
    SelectSeq([i \in 1..Len(entries) |-> i], LAMBDA i : entries[i].action = act)

\* Variant: the delete loop walks the plan forwards (the .rev() is lost).
PhaseList_forward_deletes(ph) ==
    CASE ph = "create" -> Positions("Create")
      [] ph = "modify" -> Positions("Modify")
      [] ph = "delete" -> Positions("Delete")
      [] OTHER -> <<>>

\* Variant: the modify loop loses its filter and walks the entries that need
\* nothing as well.
PhaseList_unfiltered(ph) ==
    CASE ph = "create" -> Positions("Create")
      [] ph = "modify" -> SelectSeq([i \in 1..Len(entries) |-> i],
                              LAMBDA i : entries[i].action \notin {"Create", "Delete"})
      [] ph = "delete" -> Reverse(Positions("Delete"))
      [] OTHER -> <<>>

\* The list each loop of execute() walks.
PhaseList(ph) ==
    CASE ph = "create" -> Positions("Create")
      [] ph = "modify" -> Positions("Modify")
      [] ph = "delete" -> Reverse(Positions("Delete"))
      [] OTHER -> <<>>

\* Where execute() stands once the entry at position i of phase ph is done
\* (i = 0: before the first entry of that phase).
NextPos(ph, i) ==
    IF i < Len(PhaseList(ph)) THEN <<ph, i + 1>>
    ELSE IF ph = "create" /\ Positions("Modify") # <<>> THEN <<"modify", 1>>
    ELSE IF ph \in {"create", "modify"} /\ Positions("Delete") # <<>> THEN <<"delete", 1>>
    ELSE <<"stamp", 0>>

PcAt(pos) == IF pos[1] = "stamp" THEN "stamp" ELSE "op"

\* The plan entry the current loop iteration works on, and its address.
CurIdx == PhaseList(phase)[idx]

CurEntry == entries[CurIdx]

CurAddr == addr(CurEntry.spec)

Call(op, outcome) ==
    [entry |-> CurIdx, addr |-> CurAddr, op |-> op, outcome |-> outcome,
     synced |-> (persistedMut = nMut)]

\* execute() is entered with the plan.
ExecuteBegin ==
    /\ pc = "planned"
    /\ onEntry' = state
    /\ phase' = NextPos("create", 0)[1]
    /\ idx' = NextPos("create", 0)[2]
    /\ pc' = PcAt(NextPos("create", 0))
    /\ UNCHANGED <<aws, state, local, remote, entries, planSrc, calls, nFlush,
                   nMut, persistedMut, result, replan>>

\* Create or Modify entry whose address has no syncer: ResourceNotFound.
NoSyncer ==
    /\ pc = "op"
    /\ phase \in {"create", "modify"}
    /\ ~HasSyncer(CurAddr)
    /\ pc' = "error"
    /\ result' = "ResourceNotFound"
    /\ UNCHANGED <<aws, state, local, remote, entries, planSrc, phase, idx, calls,
                   nFlush, nMut, persistedMut, onEntry, replan>>

\* syncer.create() succeeds; the fresh record is inserted.
CreateOk ==
    /\ pc = "op"
    /\ phase = "create"
    /\ HasSyncer(CurAddr)
    /\ SyncerOf(CurAddr).lifecycle = "Managed"
    /\ aws' = [aws EXCEPT ![CurAddr] = "insync"]
    /\ state' = [state EXCEPT !.resources =
                    insert(@, CurAddr, ResourceState(CurEntry.spec, "Created", "props_create"))]
    /\ calls' = Append(calls, Call("create", "ok"))
    /\ nMut' = nMut + 1
    /\ pc' = "flush_local"
    /\ UNCHANGED <<local, remote, entries, planSrc, phase, idx, nFlush,
                   persistedMut, onEntry, result, replan>>

\* syncer.update() succeeds; the record, if any, is updated in place.
ModifyOk ==
    /\ pc = "op"
    /\ phase = "modify"
    /\ HasSyncer(CurAddr)
    /\ SyncerOf(CurAddr).lifecycle = "Managed"
    /\ aws' = [aws EXCEPT ![CurAddr] = "insync"]
    /\ state' = IF CurAddr \in DOMAIN state.resources
                THEN [state EXCEPT !.resources[CurAddr].status = "Updated",
                                   !.resources[CurAddr].properties = "props_update"]
                ELSE state
    /\ calls' = Append(calls, Call("update", "ok"))
    /\ nMut' = nMut + 1
    /\ pc' = "flush_local"
    /\ UNCHANGED <<local, remote, entries, planSrc, phase, idx, nFlush,
                   persistedMut, onEntry, result, replan>>

\* syncer.destroy() succeeds; the address is removed from state.
DeleteOk ==
    /\ pc = "op"
    /\ phase = "delete"
    /\ HasSyncer(CurAddr)
    /\ SyncerOf(CurAddr).lifecycle = "Managed"
    /\ aws' = [aws EXCEPT ![CurAddr] = "absent"]
    /\ state' = [state EXCEPT !.resources = remove(@, CurAddr)]
    /\ calls' = Append(calls, Call("destroy", "ok"))
    /\ nMut' = nMut + 1
    /\ pc' = "flush_local"
    /\ UNCHANGED <<local, remote, entries, planSrc, phase, idx, nFlush,
                   persistedMut, onEntry, result, replan>>

\* Variant: state.resources.remove sits inside the `if let Some(syncer)`.
DeleteOrphan_keeps_key ==
    /\ pc = "op"
    /\ phase = "delete"
    /\ ~HasSyncer(CurAddr)
    /\ pc' = "flush_local"
    /\ UNCHANGED <<aws, state, local, remote, entries, planSrc, phase, idx, calls,
                   nFlush, nMut, persistedMut, onEntry, result, replan>>

\* Delete entry with no syncer registered: only the state key is removed.
DeleteOrphan ==
    /\ pc = "op"
    /\ phase = "delete"
    /\ ~HasSyncer(CurAddr)
    /\ state' = [state EXCEPT !.resources = remove(@, CurAddr)]
    /\ nMut' = nMut + 1
    /\ pc' = "flush_local"
    /\ UNCHANGED <<aws, local, remote, entries, planSrc, phase, idx, calls, nFlush,
                   persistedMut, onEntry, result, replan>>

OpOf(ph) ==
    CASE ph = "create" -> "create"
      [] ph = "modify" -> "update"
      [] ph = "delete" -> "destroy"

\* Variant: a failed operation is recorded in state with status Unknown
\* before the error is returned.
SyncerFails_marks_unknown ==
    /\ pc = "op"
    /\ HasSyncer(CurAddr)
    /\ calls' = Append(calls, Call(OpOf(phase), "err"))
    /\ state' = [state EXCEPT !.resources =
                    insert(@, CurAddr, ResourceState(CurEntry.spec, "Unknown", "props_none"))]
    /\ pc' = "error"
    /\ result' = "syncer_err"
    /\ UNCHANGED <<aws, local, remote, entries, planSrc, phase, idx, nFlush,
                   nMut, persistedMut, onEntry, replan>>

\* The syncer operation returns Err (always, for a Data syncer): `?` returns it.
SyncerFails ==
    /\ pc = "op"
    /\ HasSyncer(CurAddr)
    /\ calls' = Append(calls, Call(OpOf(phase), "err"))
    /\ pc' = "error"
    /\ result' = "syncer_err"
    /\ UNCHANGED <<aws, state, local, remote, entries, planSrc, phase, idx, nFlush,
                   nMut, persistedMut, onEntry, replan>>

\* state.manifest_version = Some(Manifest::VERSION)
Stamp ==
    /\ pc = "stamp"
    /\ state' = [state EXCEPT !.manifest_version = Some(VERSION)]
    /\ pc' = "flush_local"
    /\ UNCHANGED <<aws, local, remote, entries, planSrc, phase, idx, calls, nFlush,
                   nMut, persistedMut, onEntry, result, replan>>

\* Variant: the temp file is written but never renamed into place.
FlushLocal_no_rename ==
    /\ pc = "flush_local"
    /\ serializable(state)
    /\ nFlush' = nFlush + 1
    /\ pc' = "flush_remote"
    /\ UNCHANGED <<aws, state, local, remote, entries, planSrc, phase, idx, calls,
                   nMut, persistedMut, onEntry, result, replan>>

\* flush(), step 1: the state is serialised, the local temp file is written
\* and renamed into place.
FlushLocal ==
    /\ pc = "flush_local"
    /\ serializable(state)
    /\ nFlush' = nFlush + 1
    /\ local' = state
    /\ persistedMut' = nMut
    /\ pc' = "flush_remote"
    /\ UNCHANGED <<aws, state, remote, entries, planSrc, phase, idx, calls, nMut,
                   onEntry, result, replan>>

\* flush(), step 1 fails (serialisation, create_dir_all, write or rename):
\* the error propagates out of execute().
FlushLocalFails ==
    /\ pc = "flush_local"
    /\ nFlush' = nFlush + 1
    /\ pc' = "error"
    /\ result' = "flush_err"
    /\ UNCHANGED <<aws, state, local, remote, entries, planSrc, phase, idx, calls,
                   nMut, persistedMut, onEntry, replan>>

\* Control after flush() has returned Ok.
AfterFlush ==
    IF phase = "stamp"
    THEN /\ pc' = "done"
         /\ result' = "Ok"
         /\ UNCHANGED <<phase, idx>>
    ELSE /\ phase' = NextPos(phase, idx)[1]
         /\ idx' = NextPos(phase, idx)[2]
         /\ pc' = PcAt(NextPos(phase, idx))
         /\ UNCHANGED result

\* flush(), step 2: the remote upload succeeds.
FlushRemote ==
    /\ pc = "flush_remote"
    /\ remote' = state
    /\ AfterFlush
    /\ UNCHANGED <<aws, state, local, entries, planSrc, calls, nFlush, nMut,
                   persistedMut, onEntry, replan>>

\* flush(), step 2: the remote upload fails; logged, flush still returns Ok.
FlushRemoteFails ==
    /\ pc = "flush_remote"
    /\ AfterFlush
    /\ UNCHANGED <<aws, state, local, remote, entries, planSrc, calls, nFlush, nMut,
                   persistedMut, onEntry, replan>>

\* The effect a syncer operation has on AWS once its request has landed.
Landed(op, a) ==
    [aws EXCEPT ![a] = IF op = "destroy" THEN "absent" ELSE "insync"]

\* The execute() future is dropped while awaiting a syncer operation; the
\* request may or may not have landed.
CancelOp ==
    /\ pc = "op"
    /\ HasSyncer(CurAddr)
    /\ SyncerOf(CurAddr).lifecycle = "Managed"
    /\ \E landed \in BOOLEAN :
          /\ aws' = IF landed THEN Landed(OpOf(phase), CurAddr) ELSE aws
          /\ nMut' = IF landed THEN nMut + 1 ELSE nMut
          /\ calls' = Append(calls, Call(OpOf(phase),
                                         IF landed THEN "cancelled_landed" ELSE "cancelled"))
    /\ pc' = "cancelled"
    /\ result' = "cancelled"
    /\ UNCHANGED <<state, local, remote, entries, planSrc, phase, idx, nFlush,
                   persistedMut, onEntry, replan>>

\* The execute() future is dropped while awaiting the remote upload.
CancelUpload ==
    /\ pc = "flush_remote"
    /\ \E landed \in BOOLEAN : remote' = IF landed THEN state ELSE remote
    /\ pc' = "cancelled"
    /\ result' = "cancelled"
    /\ UNCHANGED <<aws, state, local, entries, planSrc, phase, idx, calls, nFlush,
                   nMut, persistedMut, onEntry, replan>>

\* `apply` re-plans on the state execute() left.
Replan ==
    /\ pc = "done"
    /\ planSrc = "planner"
    /\ \E order \in KeyOrders(Orphans(state)) : replan' = plan(state, aws, order)
    /\ pc' = "replanned"
    /\ UNCHANGED <<aws, state, local, remote, entries, planSrc, phase, idx, calls,
                   nFlush, nMut, persistedMut, onEntry, result>>

Next ==
    \/ Plan
    \/ PlanReadError
    \/ ExecuteBegin
    \/ NoSyncer
    \/ CreateOk
    \/ ModifyOk
    \/ DeleteOk
    \/ DeleteOrphan
    \/ SyncerFails
    \/ Stamp
    \/ FlushLocal
    \/ FlushLocalFails
    \/ FlushRemote
    \/ FlushRemoteFails
    \/ CancelOp
    \/ CancelUpload
    \/ Replan

Spec == Init /\ [][Next]_vars


\* ===========================================================================
\* Properties
\* ===========================================================================

\* A plan() result is in hand, computed from the current state and AWS.
Planned == pc = "planned" /\ planSrc = "planner"

\* The state's manifest version is unset or older than the manifest's.
Upgraded ==
    IF state.manifest_version = <<>> THEN TRUE ELSE state.manifest_version[1] < 1

\* Keys of state.resources that are the address of no syncer.
Uncovered ==
    {a \in DOMAIN state.resources : \A i \in 1..Len(Syncers) : addr(Syncers[i]) # a}

\* C1: plan returns one entry per syncer, in syncer order, followed by exactly
\* one entry per key of state.resources that is no syncer's address; those
\* entries are Delete / Orphaned with a synthetic spec of severity Destructive;
\* there are no other entries.
C1_PlanShape ==
    Planned =>
        LET n == Len(Syncers)
        IN /\ Len(entries) = n + Cardinality(Uncovered)
           /\ \A i \in 1..n : entries[i].spec = Syncers[i]
           /\ \A i \in (n + 1)..Len(entries) :
                 /\ addr(entries[i].spec) \in Uncovered
                 /\ entries[i].action = "Delete"
                 /\ entries[i].cause = "Orphaned"
                 /\ entries[i].spec.severity = "Destructive"
                 /\ entries[i].drift = <<>>
           /\ \A a \in Uncovered :
                 Cardinality({i \in (n + 1)..Len(entries) : addr(entries[i].spec) = a}) = 1

\* A plan over a state holding two orphans and a record of a managed address.
C1_Witness ==
    /\ Planned
    /\ Cardinality(Uncovered) = 2
    /\ Cardinality(DOMAIN state.resources) = 3
    /\ Len(entries) = Len(Syncers) + 2
    /\ entries[Len(entries)].action = "Delete"

\* C2: for a syncer whose read returns Some(v), the entry is Ok / InSync iff
\* diff(v) is empty; otherwise it is Modify (Managed) or PreconditionFailed
\* (Data), with cause ManifestChanged when manifest_version is None or below
\* Manifest::VERSION and Drift otherwise; the entry's drift is diff(v).
C2_ExistingResource ==
    Planned =>
        \A i \in 1..Len(Syncers) :
            LET a == addr(Syncers[i])
                e == entries[i]
            IN aws[a] # "absent" =>
                  /\ e.drift = diff(aws[a])
                  /\ (e.action = "Ok") <=> (diff(aws[a]) = <<>>)
                  /\ (e.cause = "InSync") <=> (diff(aws[a]) = <<>>)
                  /\ diff(aws[a]) # <<>> =>
                        /\ e.action = IF Syncers[i].lifecycle = "Managed"
                                      THEN "Modify" ELSE "PreconditionFailed"
                        /\ e.cause = IF Upgraded THEN "ManifestChanged" ELSE "Drift"

\* A plan with a drifted Data precondition and a drifted Managed resource,
\* against a state file stamped with a version below Manifest::VERSION.
C2_Witness ==
    /\ Planned
    /\ state.manifest_version = <<0>>
    /\ entries[1].action = "PreconditionFailed"
    /\ entries[1].cause = "ManifestChanged"
    /\ entries[2].action = "Modify"
    /\ entries[2].drift # <<>>
    /\ entries[3].action = "Ok"

\* C3: for a syncer whose read returns None, a Data spec yields
\* PreconditionFailed / Drift; a Managed spec yields Create, with cause
\* ManifestChanged exactly when the manifest was upgraded and the address is
\* no key of state.resources, and FirstProvision otherwise.
C3_MissingResource ==
    Planned =>
        \A i \in 1..Len(Syncers) :
            LET a == addr(Syncers[i])
                e == entries[i]
            IN aws[a] = "absent" =>
                  /\ e.drift = <<>>
                  /\ Syncers[i].lifecycle = "Data" =>
                        e.action = "PreconditionFailed" /\ e.cause = "Drift"
                  /\ Syncers[i].lifecycle = "Managed" =>
                        /\ e.action = "Create"
                        /\ e.cause \in {"ManifestChanged", "FirstProvision"}
                        /\ (e.cause = "ManifestChanged") <=>
                              (Upgraded /\ a \notin DOMAIN state.resources)

\* A plan, after a manifest upgrade, with one missing resource the state
\* knows (FirstProvision) and one it does not (ManifestChanged), and a
\* missing Data precondition.
C3_Witness ==
    /\ Planned
    /\ state.manifest_version = <<>>
    /\ entries[1].action = "PreconditionFailed"
    /\ entries[1].cause = "Drift"
    /\ entries[2].action = "Create"
    /\ entries[2].cause = "FirstProvision"
    /\ entries[3].action = "Create"
    /\ entries[3].cause = "ManifestChanged"


\* Rank of a syncer operation in execute()'s phase order.
OpRank(op) ==
    CASE op = "create" -> 1
      [] op = "update" -> 2
      [] op = "destroy" -> 3

\* C4: within one execute call every create is invoked before any update and
\* every update before any destroy; creates and updates are invoked in plan
\* order, destroys in reverse plan order.
C4_CallOrder ==
    /\ \A i \in 1..Len(calls) :
          entries[calls[i].entry].action =
              (CASE calls[i].op = "create" -> "Create"
                 [] calls[i].op = "update" -> "Modify"
                 [] calls[i].op = "destroy" -> "Delete")
    /\ \A i, j \in 1..Len(calls) :
          i < j =>
             /\ OpRank(calls[i].op) <= OpRank(calls[j].op)
             /\ (calls[i].op = calls[j].op /\ calls[i].op # "destroy") =>
                   calls[i].entry < calls[j].entry
             /\ (calls[i].op = calls[j].op /\ calls[i].op = "destroy") =>
                   calls[i].entry > calls[j].entry

\* A plan <<Delete, Delete, Modify>>: the update (third entry) was invoked
\* first, then the destroys of the second and of the first entry.
C4_Witness ==
    /\ Len(calls) = 3
    /\ calls[1].op = "update" /\ calls[1].entry = 3
    /\ calls[2].op = "destroy" /\ calls[2].entry = 2
    /\ calls[3].op = "destroy" /\ calls[3].entry = 1

\* C5: every successful create, update or delete is followed by a flush that
\* completes before the next syncer operation begins: whenever a syncer
\* operation is invoked every earlier mutation is in the local file (which
\* then equals the in-memory state), and at every point of execute, also
\* after a cancellation, the local file lacks at most the single most recent
\* completed mutation.
C5_FlushBeforeNextOp ==
    /\ \A i \in 1..Len(calls) : calls[i].synced
    /\ pc \in {"op", "stamp"} => persistedMut = nMut
    /\ (pc \in {"op", "stamp"} /\ nMut > 0) => local = state
    /\ nMut - persistedMut \in {0, 1}
    /\ pc = "flush_remote" => local = state

\* execute was cancelled during its second syncer operation, whose request had
\* landed: the first mutation (a destroy that emptied the state) is on disk,
\* the second is the only one missing.
C5_Witness ==
    /\ pc = "cancelled"
    /\ Len(calls) = 2
    /\ calls[1].outcome = "ok"
    /\ calls[2].outcome = "cancelled_landed"
    /\ nMut = 2
    /\ persistedMut = 1
    /\ local = state
    /\ onEntry.resources # state.resources

\* C6: when a syncer create, update or destroy fails, execute returns that
\* error at once: the failed call is the last syncer call, no flush follows
\* it, the failed entry leaves state.resources as it was (equal to what the
\* last flush wrote or, before any mutation, to the state on entry), earlier
\* mutations stay applied, and manifest_version is not stamped.
C6_SyncerErrorAborts ==
    result = "syncer_err" =>
        /\ pc = "error"
        /\ calls # <<>>
        /\ calls[Len(calls)].outcome = "err"
        /\ \A i \in 1..(Len(calls) - 1) : calls[i].outcome = "ok"
        /\ nFlush = nMut
        /\ persistedMut = nMut
        /\ state = IF nMut = 0 THEN onEntry ELSE local
        /\ state.manifest_version = onEntry.manifest_version
        /\ \A i \in 1..(Len(calls) - 1) :
              (\A j \in (i + 1)..(Len(calls) - 1) : calls[j].addr # calls[i].addr) =>
                 /\ aws[calls[i].addr] = IF calls[i].op = "destroy" THEN "absent" ELSE "insync"
                 /\ calls[i].op = "destroy" => calls[i].addr \notin DOMAIN state.resources
                 /\ calls[i].op = "create" =>
                       /\ calls[i].addr \in DOMAIN state.resources
                       /\ state.resources[calls[i].addr].status = "Created"

\* The second syncer call failed after a destroy had been applied and
\* flushed: the destroyed resource's key is still gone from state and from
\* the local file, and the version is as it was on entry.
C6_Witness ==
    /\ result = "syncer_err"
    /\ Len(calls) = 2
    /\ calls[1].op = "destroy"
    /\ calls[1].outcome = "ok"
    /\ calls[1].addr \in DOMAIN onEntry.resources
    /\ calls[1].addr \notin DOMAIN state.resources
    /\ calls[1].addr \notin DOMAIN local.resources
    /\ state.manifest_version = onEntry.manifest_version

\* C7 (as claimed): a plan holding a PreconditionFailed entry is rejected by
\* execute: no syncer call, no flush, no state change, no Ok result.
C7_RejectsPreconditionFailed ==
    (\E i \in 1..Len(entries) : entries[i].action = "PreconditionFailed") =>
        /\ calls = <<>>
        /\ nFlush = 0
        /\ state = onEntry
        /\ result # "Ok"

\* C8 (as claimed): execute returning Ok ends with manifest_version =
\* Manifest::VERSION in memory and in the flushed file; execute returning an
\* error leaves manifest_version as it was on entry.
C8_StampOnlyOnOk ==
    /\ result = "Ok" =>
          /\ state.manifest_version = <<1>>
          /\ local.manifest_version = <<1>>
    /\ pc = "error" => state.manifest_version = onEntry.manifest_version

\* C9 (as claimed): after an execute that returned Ok, plan on the resulting
\* state reports every entry as Ok / InSync.
C9_ConvergesAfterApply ==
    pc = "replanned" =>
        \A i \in 1..Len(replan) :
            replan[i].action = "Ok" /\ replan[i].cause = "InSync"

\* Plan positions holding a Delete entry.
DeleteEntries == {i \in 1..Len(entries) : entries[i].action = "Delete"}

\* The address of plan entry i has a syncer in the syncer list.
Registered(i) ==
    \E k \in 1..Len(Syncers) : addr(Syncers[k]) = addr(entries[i].spec)

\* C10: destroy is invoked only for Delete entries whose address has a syncer
\* in the list; a Delete entry without one causes no syncer call; once
\* execute returns Ok every Delete entry's address is gone from
\* state.resources and from the flushed file, and each Delete entry with a
\* syncer had destroy invoked exactly once.
C10_DeleteEntries ==
    /\ \A c \in 1..Len(calls) :
          calls[c].op = "destroy" =>
             calls[c].entry \in DeleteEntries /\ Registered(calls[c].entry)
    /\ \A i \in DeleteEntries :
          ~Registered(i) => \A c \in 1..Len(calls) : calls[c].entry # i
    /\ result = "Ok" =>
          /\ nFlush = nMut + 1
          /\ \A i \in DeleteEntries :
                /\ addr(entries[i].spec) \notin DOMAIN state.resources
                /\ addr(entries[i].spec) \notin DOMAIN local.resources
                /\ Registered(i) =>
                      Cardinality({c \in 1..Len(calls) :
                                     calls[c].entry = i /\ calls[c].op = "destroy"
                                     /\ calls[c].outcome = "ok"}) = 1

\* execute returned Ok on a plan deleting an orphan that was in state (no
\* syncer: key removed, no call) and a resource with a syncer (one destroy).
C10_Witness ==
    /\ result = "Ok"
    /\ \E i, j \in DeleteEntries :
          /\ ~Registered(i)
          /\ addr(entries[i].spec) \in DOMAIN onEntry.resources
          /\ addr(entries[i].spec) \notin DOMAIN state.resources
          /\ addr(entries[i].spec) \notin DOMAIN local.resources
          /\ Registered(j)
    /\ Len(calls) = 1
    /\ calls[1].op = "destroy"
    /\ calls[1].outcome = "ok"


\* ===========================================================================
\* plan() over the concrete syncers' read()
\* ===========================================================================

\* How the AWS call a syncer's read() makes can end: the resource is there
\* and matches (or not) the desired value, the service answers not-found,
\* the caller is denied, or the request never completes.
Responses == {"ok_insync", "ok_drifted", "not_found", "access_denied", "transport"}

\* The responses that are failures other than not-found.
Failures == {"access_denied", "transport"}

\* Result<Option<Value>, ProvisionerError> of a read().
ReadOk(v) == [ok |-> TRUE, value |-> v]

ReadErr == [ok |-> FALSE, value |-> None]

\* IamUserSyncer::read - get_user: NoSuchEntity is None, any other error is
\* returned; diff() is always empty, so a user that exists reads as in sync.
IamUserSyncer_read(resp) ==
    IF resp \in {"ok_insync", "ok_drifted"} THEN ReadOk(Some("insync"))
    ELSE IF resp = "not_found" THEN ReadOk(None)
    ELSE ReadErr

\* S3BucketSyncer::read - head_bucket: `Err(_) => Ok(None)`; diff() is
\* always empty, so a bucket that exists reads as in sync.
S3BucketSyncer_read(resp) ==
    IF resp \in {"ok_insync", "ok_drifted"} THEN ReadOk(Some("insync"))
    ELSE ReadOk(None)

\* S3BucketEncryptionSyncer::read - get_bucket_encryption:
\* `Err(_) => Ok(Some({"sse_algorithm": null}))`, which diff() reports as
\* drift from the desired algorithm.
S3BucketEncryptionSyncer_read(resp) ==
    IF resp = "ok_insync" THEN ReadOk(Some("insync"))
    ELSE IF resp = "ok_drifted" THEN ReadOk(Some("drifted"))
    ELSE ReadOk(Some("sse_algorithm_null"))

\* syncer.read() of the syncer built for a spec (build_syncers).
SyncerRead(spec, resp) ==
    CASE spec.resource_type = "iam_user" -> IamUserSyncer_read(resp)
      [] spec.resource_type = "s3_bucket" -> S3BucketSyncer_read(resp)
      [] spec.resource_type = "s3_bucket_encryption" -> S3BucketEncryptionSyncer_read(resp)

\* Some read() of the syncer loop returns Err: `syncer.read().await?`.
ReadFails(world) ==
    \E i \in 1..Len(Syncers) : ~SyncerRead(Syncers[i], world[addr(Syncers[i])]).ok

\* plan(syncers, state) when every read() returned Ok, for one iteration
\* order of the state's keys.
plan_syncers(st, world, order) ==
    [i \in 1..Len(Syncers) |->
        SpecEntry(Syncers[i], SyncerRead(Syncers[i], world[addr(Syncers[i])]).value, st)]
    \o [i \in 1..Len(order) |-> OrphanEntry(order[i])]

\* plan() is about to be called: any response per syncer, any state.
InitPlan ==
    /\ aws \in [SyncerAddrs -> Responses]
    /\ \E S \in SUBSET (ManagedAddrs \cup OrphanAddrs), mv \in StoredVersions :
          state = StoredState(S, mv)
    /\ entries = <<>>
    /\ planSrc = "planner"
    /\ pc = "idle"
    /\ local = LastPersisted(state)
    /\ remote = LastPersisted(state)
    /\ phase = "none"
    /\ idx = 0
    /\ calls = <<>>
    /\ nFlush = 0
    /\ nMut = 0
    /\ persistedMut = 0
    /\ onEntry = state
    /\ result = "running"
    /\ replan = <<>>

\* plan() returns Ok(entries).
PlanCallOk ==
    /\ pc = "idle"
    /\ ~ReadFails(aws)
    /\ \E order \in KeyOrders(Orphans(state)) : entries' = plan_syncers(state, aws, order)
    /\ pc' = "planned"
    /\ result' = "Ok"
    /\ UNCHANGED <<aws, state, local, remote, planSrc, phase, idx, calls, nFlush,
                   nMut, persistedMut, onEntry, replan>>

\* plan() returns the error of the first read() that failed.
PlanCallErr ==
    /\ pc = "idle"
    /\ ReadFails(aws)
    /\ pc' = "error"
    /\ result' = "read_err"
    /\ UNCHANGED <<aws, state, local, remote, entries, planSrc, phase, idx, calls,
                   nFlush, nMut, persistedMut, onEntry, replan>>

\* plan() is called a second time with the same syncers, an equal state and
\* the same responses. The equal state is another HashMap (the state file
\* loaded again, or a later run): std's HashMap seeds its hasher per map, so
\* its keys() may come out in another order.
PlanCallAgain ==
    /\ pc = "planned"
    /\ ~ReadFails(aws)
    /\ \E order \in KeyOrders(Orphans(state)) : replan' = plan_syncers(state, aws, order)
    /\ pc' = "replanned"
    /\ UNCHANGED <<aws, state, local, remote, entries, planSrc, phase, idx, calls,
                   nFlush, nMut, persistedMut, onEntry, result>>

NextPlan ==
    \/ PlanCallOk
    \/ PlanCallErr
    \/ PlanCallAgain

SpecPlan == InitPlan /\ [][NextPlan]_vars

\* C11 (as claimed): a read() whose AWS call failed with access-denied or a
\* transport failure makes plan return an error: plan never returns Ok while
\* some syncer's call failed that way, so no Create or Modify entry is ever
\* emitted for such a resource.
C11_ReadFailureIsError ==
    pc = "planned" =>
        \A i \in 1..Len(Syncers) :
            aws[addr(Syncers[i])] \in {"access_denied", "transport"} =>
                /\ result = "read_err"
                /\ entries[i].action \notin {"Create", "Modify"}

\* C12 (as claimed): a second plan call with equal syncers, an equal state
\* and equal read results returns the same entry sequence as the first,
\* orphan Delete entries in the same relative order.
C12_PlanDeterministic ==
    pc = "replanned" => replan = entries


\* ===========================================================================
\* StatePersistence: flush(), load(), delete() over the two sinks
\* ===========================================================================

\* Number of persistence operations in one run.
MaxOps == 2

\* A JSON string is modelled by its '.'-separated segments:
\* "s3_bucket.data" is <<"s3_bucket", "data">>. No segment used here holds a
\* character that sorts below '.', so comparing segment by segment is the
\* byte order of the strings.
SegOrder == <<"cloudtrail_trail", "data", "s3_bucket", "trail">>

SegRank(seg) == CHOOSE i \in 1..Len(SegOrder) : SegOrder[i] = seg

\* String order (the iteration order of serde_json::Map, a BTreeMap).
KeyLess(k1, k2) ==
    \E i \in 1..(Len(k1) + 1) :
        /\ \A j \in 1..(i - 1) : j <= Len(k2) /\ k1[j] = k2[j]
        /\ i <= Len(k2)
        /\ (i = Len(k1) + 1 \/ SegRank(k1[i]) < SegRank(k2[i]))

\* impl Display for ResourceAddr: "{resource_type}.{resource_name}".
Display(a) == a.resource_type \o a.resource_name

EmptyMap == [k \in {} |-> k]

\* ProvisionerState with all four fields.
ProvisionerState(resources, mv, region, bucket) ==
    [resources |-> resources, manifest_version |-> mv, region |-> region, bucket |-> bucket]

\* ProvisionerState::default()
DefaultState == ProvisionerState(EmptyMap, None, "", "")

\* A JSON object that is a candidate state file. A field that is missing is
\* None; manifest_version present is Some(None) for null, Some(Some(v)) for
\* a number; resources, when present, maps key strings to records.
JsonObject(resources, mv, region, bucket) ==
    [kind |-> "object", resources |-> resources, manifest_version |-> mv,
     region |-> region, bucket |-> bucket]

\* Bytes that are no JSON at all (a truncated file).
NotJson ==
    [kind |-> "not_json", resources |-> None, manifest_version |-> None,
     region |-> None, bucket |-> None]

\* JSON that is no object (an array).
JsonArray ==
    [kind |-> "array", resources |-> None, manifest_version |-> None,
     region |-> None, bucket |-> None]

\* A ResourceState as a JSON object; resource_id is None when the record has
\* no string of that name.
JsonRecord(type, id) ==
    [resource_type |-> type, resource_id |-> id, status |-> "created",
     properties |-> "props_stored"]

\* serde_json::to_vec_pretty(state), for a state that has a JSON form: every
\* field is written, a None manifest_version as null.
to_vec_pretty(st) ==
    JsonObject(Some(EmptyMap), Some(st.manifest_version), Some(st.region), Some(st.bucket))

\* serde_json::from_slice / from_value ::<ProvisionerState>: Some(state), or
\* None on failure. resources, region and bucket are required;
\* manifest_version has #[serde(default)]. A key of the resources object is
\* a string, which ResourceAddr (a derived struct) does not deserialise from:
\* only an empty resources object is accepted.
from_value(doc) ==
    IF /\ doc.kind = "object"
       /\ doc.resources # None
       /\ DOMAIN doc.resources[1] = {}
       /\ doc.region # None
       /\ doc.bucket # None
    THEN Some(ProvisionerState(EmptyMap,
                               IF doc.manifest_version = None THEN None
                               ELSE doc.manifest_version[1],
                               doc.region[1], doc.bucket[1]))
    ELSE None

\* The key migrate_state_v1_to_v2 gives the record stored under key k.
NewKey(resources, k) ==
    Display(ResourceAddr(k, IF resources[k].resource_id # None
                            THEN resources[k].resource_id[1]
                            ELSE k))

\* new_resources: every record inserted under its new key, in key order, a
\* later insert replacing an earlier one under the same key.
new_resources(resources) ==
    [nk \in {NewKey(resources, k) : k \in DOMAIN resources} |->
        LET from == {k \in DOMAIN resources : NewKey(resources, k) = nk}
        IN resources[CHOOSE k \in from : \A o \in from \ {k} : KeyLess(o, k)]]

\* migrate_state_v1_to_v2
migrate_state_v1_to_v2(old) ==
    IF old.kind # "object" THEN old
    ELSE IF old.manifest_version # None THEN old
    ELSE IF old.resources = None THEN old
    ELSE [old EXCEPT !.resources = Some(new_resources(old.resources[1]))]

\* The fast path then the slow path of load_from_s3 / load_from_local.
deserialize(doc) ==
    IF from_value(doc) # None
    THEN [how |-> "direct", state |-> from_value(doc)]
    ELSE IF doc.kind = "not_json"
    THEN [how |-> "incompatible", state |-> None]
    ELSE IF from_value(migrate_state_v1_to_v2(doc)) # None
    THEN [how |-> "migrated", state |-> from_value(migrate_state_v1_to_v2(doc))]
    ELSE [how |-> "incompatible", state |-> None]

Sinks(l, r) == [local |-> l, remote |-> r]

\* What an operation did: its result, the sinks it left, the sink accesses it
\* made, and the state it returned (load only).
Outcome(res, ret, sinks, trace) ==
    [result |-> res, ret |-> ret, sinks |-> sinks, trace |-> trace]

\* Variant: a failed upload fails the flush.
flush_upload_propagates(s, sinks, f) ==
    IF ~serializable(s)
    THEN Outcome("Serialization", None, sinks, <<>>)
    ELSE IF f.write = "write_tmp"
    THEN Outcome("Io", None, sinks, <<"write_tmp_failed">>)
    ELSE IF f.write = "rename"
    THEN Outcome("Io", None, sinks, <<"write_tmp", "rename_failed">>)
    ELSE IF f.upload = "ok"
    THEN Outcome("Ok", None, Sinks(Some(to_vec_pretty(s)), Some(to_vec_pretty(s))),
                 <<"write_tmp", "rename", "put_remote">>)
    ELSE Outcome("Storage", None, Sinks(Some(to_vec_pretty(s)), sinks.remote),
                 <<"write_tmp", "rename", "put_remote_failed">>)

\* StatePersistence::flush, under the faults f of the local write and of the
\* upload.
flush(s, sinks, f) ==
    IF ~serializable(s)
    THEN Outcome("Serialization", None, sinks, <<>>)
    ELSE IF f.write = "write_tmp"
    THEN Outcome("Io", None, sinks, <<"write_tmp_failed">>)
    ELSE IF f.write = "rename"
    THEN Outcome("Io", None, sinks, <<"write_tmp", "rename_failed">>)
    ELSE IF f.upload = "ok"
    THEN Outcome("Ok", None, Sinks(Some(to_vec_pretty(s)), Some(to_vec_pretty(s))),
                 <<"write_tmp", "rename", "put_remote">>)
    ELSE Outcome("Ok", None, Sinks(Some(to_vec_pretty(s)), sinks.remote),
                 <<"write_tmp", "rename", "put_remote_failed">>)

\* load_from_s3: Result<ProvisionerState, LoadError>, with the flush of a
\* migrated state.
load_from_s3(sinks, f) ==
    IF f.get # "ok"
    THEN Outcome("Other", None, sinks, <<"get_remote_failed">>)
    ELSE IF sinks.remote = None
    THEN Outcome("NotFound", None, sinks, <<"get_remote">>)
    ELSE LET d == deserialize(sinks.remote[1])
         IN IF d.how = "direct"
            THEN Outcome("Ok", d.state, sinks, <<"get_remote">>)
            ELSE IF d.how = "migrated"
            THEN LET w == flush(d.state[1], sinks, f)
                 IN Outcome("Ok", d.state, w.sinks, <<"get_remote">> \o w.trace)
            ELSE Outcome("Incompatible", None, sinks, <<"get_remote">>)

\* load_from_local
load_from_local(sinks, f) ==
    IF f.read # "ok"
    THEN Outcome("Other", None, sinks, <<"read_local_failed">>)
    ELSE IF sinks.local = None
    THEN Outcome("NotFound", None, sinks, <<"read_local">>)
    ELSE LET d == deserialize(sinks.local[1])
         IN IF d.how \in {"direct", "migrated"}
            THEN Outcome("Ok", d.state, sinks, <<"read_local">>)
            ELSE Outcome("Incompatible", None, sinks, <<"read_local">>)

\* StatePersistence::load
load(sinks, f) ==
    LET r == load_from_s3(sinks, f)
    IN IF r.result = "Ok" THEN r
       ELSE IF r.result = "Incompatible"
       THEN Outcome("State_incompatible", None, r.sinks, r.trace)
       ELSE LET l == load_from_local(r.sinks, f)
            IN IF l.result = "Ok"
               THEN Outcome("Ok", l.ret, l.sinks, r.trace \o l.trace)
               ELSE IF l.result = "Incompatible"
               THEN Outcome("State_local_incompatible", None, l.sinks, r.trace \o l.trace)
               ELSE Outcome("Ok", Some(DefaultState), l.sinks, r.trace \o l.trace)

\* Variant: the remote object is left in place.
delete_local_only(sinks, f) ==
    IF f.remove # "ok"
    THEN Outcome("Io", None, sinks, <<"remove_local_failed">>)
    ELSE Outcome("Ok", None, Sinks(None, sinks.remote), <<"remove_local">>)

\* StatePersistence::delete. remove_file reports a missing file as NotFound,
\* which is ignored; deleting a missing S3 object succeeds.
delete(sinks, f) ==
    IF f.remove # "ok"
    THEN Outcome("Io", None, sinks, <<"remove_local_failed">>)
    ELSE IF f.s3delete # "ok"
    THEN Outcome("Storage", None, Sinks(None, sinks.remote),
                 <<"remove_local", "delete_remote_failed">>)
    ELSE Outcome("Ok", None, Sinks(None, None), <<"remove_local", "delete_remote">>)

\* ---------------------------------------------------------------------------
\* The states and the files of a run
\* ---------------------------------------------------------------------------

\* States a caller hands to flush().
MemStates ==
    {ProvisionerState(res, mv, cfg[1], cfg[2]) :
        res \in {EmptyMap,
                 [a \in {ResourceAddr("s3_bucket", "data")} |-> StoredRecord(a)]},
        mv \in {None, Some(VERSION)},
        cfg \in {<<"", "">>, <<"us-east-1", "claria-data">>}}

\* Legacy (v1) state files: no manifest_version, resources keyed by type tag.
LegacyResources ==
    {EmptyMap,
     [k \in {<<"s3_bucket">>} |-> JsonRecord(k, Some(<<"data">>))],
     [k \in {<<"s3_bucket">>, <<"cloudtrail_trail">>} |->
        JsonRecord(k, Some(IF k = <<"s3_bucket">> THEN <<"data">> ELSE <<"trail">>))]}

LegacyDocs ==
    {JsonObject(Some(res), None, Some("us-east-1"), Some("claria-data")) :
        res \in LegacyResources}

\* What a sink can hold on entry: a file flush() wrote, a legacy file, a file
\* in the documented v2 shape (keys "{type}.{name}"), or damaged content.
StoredDocs ==
    {to_vec_pretty(st) : st \in {m \in MemStates : serializable(m)}}
    \cup LegacyDocs
    \cup {JsonObject(Some([k \in {<<"s3_bucket", "data">>} |->
                              JsonRecord(<<"s3_bucket">>, Some(<<"data">>))]),
                     Some(Some(VERSION)), Some("us-east-1"), Some("claria-data")),
          NotJson, JsonArray}

StoredFiles == {None} \cup {Some(doc) : doc \in StoredDocs}

InitPersistence ==
    /\ local \in StoredFiles
    /\ remote \in StoredFiles
    /\ state = DefaultState
    /\ calls = <<>>
    /\ result = "running"
    /\ pc = "idle"
    /\ aws = [a \in SyncerAddrs |-> "insync"]
    /\ entries = <<>>
    /\ planSrc = "caller"
    /\ phase = "none"
    /\ idx = 0
    /\ nFlush = 0
    /\ nMut = 0
    /\ persistedMut = 0
    /\ onEntry = state
    /\ replan = <<>>

\* One completed operation, appended to calls.
OpRecord(op, arg, out) ==
    [op |-> op, arg |-> arg, result |-> out.result, ret |-> out.ret,
     trace |-> out.trace, before |-> Sinks(local, remote), after |-> out.sinks]

Completes(op, arg, out) ==
    /\ calls' = Append(calls, OpRecord(op, arg, out))
    /\ local' = out.sinks.local
    /\ remote' = out.sinks.remote
    /\ result' = out.result
    /\ UNCHANGED <<aws, entries, planSrc, pc, phase, idx, nFlush, nMut,
                   persistedMut, onEntry, replan>>

WriteFaults == {"ok", "write_tmp", "rename"}

IoOutcomes == {"ok", "fail"}

\* flush(s) is called and returns.
FlushCall ==
    /\ Len(calls) < MaxOps
    /\ \E s \in MemStates, w \in WriteFaults, u \in IoOutcomes :
          /\ state' = s
          /\ Completes("flush", Some(s), flush(s, Sinks(local, remote),
                                               [write |-> w, upload |-> u]))

\* load() is called and returns.
LoadCall ==
    /\ Len(calls) < MaxOps
    /\ \E g \in IoOutcomes, r \in IoOutcomes, w \in WriteFaults, u \in IoOutcomes :
          LET out == load(Sinks(local, remote),
                          [get |-> g, read |-> r, write |-> w, upload |-> u])
          IN /\ state' = IF out.ret # None THEN out.ret[1] ELSE state
             /\ Completes("load", None, out)

\* delete() is called and returns.
DeleteCall ==
    /\ Len(calls) < MaxOps
    /\ \E rm \in IoOutcomes, d \in IoOutcomes :
          /\ UNCHANGED state
          /\ Completes("delete", None, delete(Sinks(local, remote),
                                              [remove |-> rm, s3delete |-> d]))

NextPersistence ==
    \/ FlushCall
    \/ LoadCall
    \/ DeleteCall

SpecPersistence == InitPersistence /\ [][NextPersistence]_vars


\* The operation record c shows the sink access `step`.
Did(c, step) == \E j \in 1..Len(c.trace) : c.trace[j] = step

\* C13 (as claimed): once flush(s) has returned Ok, the next load() returns a
\* state equal to s, whatever was persisted before and whether or not the
\* upload of that flush succeeded.
C13_RoundTrip ==
    \A i \in 1..(Len(calls) - 1) :
        (calls[i].op = "flush" /\ calls[i].result = "Ok" /\ calls[i + 1].op = "load") =>
            /\ calls[i + 1].result = "Ok"
            /\ calls[i + 1].ret = calls[i].arg

\* C14: flush returns Ok exactly when the state was serialised and the local
\* temp file was written and renamed, whatever the upload did; when it
\* returns an error no upload was attempted and both sinks are as before;
\* when it returns Ok the local file holds the serialised state, and the
\* remote object holds it too unless the upload failed.
C14_FlushLocalDecides ==
    \A i \in 1..Len(calls) :
        calls[i].op = "flush" =>
            LET c == calls[i]
                json == JsonObject(Some(EmptyMap), Some(c.arg[1].manifest_version),
                                   Some(c.arg[1].region), Some(c.arg[1].bucket))
            IN /\ (c.result = "Ok") <=> Did(c, "rename")
               /\ Did(c, "write_tmp") \/ Did(c, "write_tmp_failed")
                     <=> (DOMAIN c.arg[1].resources = {})
               /\ c.result # "Ok" =>
                     /\ ~Did(c, "put_remote")
                     /\ ~Did(c, "put_remote_failed")
                     /\ c.after = c.before
               /\ c.result = "Ok" =>
                     /\ Did(c, "put_remote") \/ Did(c, "put_remote_failed")
                     /\ c.after.local = Some(json)
                     /\ c.after.remote = IF Did(c, "put_remote") THEN Some(json)
                                         ELSE c.before.remote

\* A flush returned Ok although its upload failed; the next flush, of another
\* state, failed at the rename and left the file of the first in place.
C14_Witness ==
    /\ Len(calls) = 2
    /\ calls[1].op = "flush"
    /\ calls[1].result = "Ok"
    /\ Did(calls[1], "put_remote_failed")
    /\ calls[2].op = "flush"
    /\ calls[2].result = "Io"
    /\ Did(calls[2], "rename_failed")
    /\ calls[2].arg # calls[1].arg
    /\ local # None
    /\ from_value(local[1]) = calls[1].arg
    /\ remote # local

\* What the remote object of operation record c deserialises to.
RemoteOf(c) ==
    IF c.before.remote = None THEN [how |-> "absent", state |-> None]
    ELSE deserialize(c.before.remote[1])

\* C15 (as claimed): load returns the remote state whenever the remote object
\* is present and deserialisable, reads the local file only when the remote
\* object is absent, and then returns what the local file deserialises to.
C15_RemoteFirst ==
    \A i \in 1..Len(calls) :
        calls[i].op = "load" =>
            LET c == calls[i]
            IN /\ RemoteOf(c).how \in {"direct", "migrated"} =>
                     /\ c.result = "Ok"
                     /\ c.ret = RemoteOf(c).state
               /\ (Did(c, "read_local") \/ Did(c, "read_local_failed")) =>
                     c.before.remote = None
               /\ (c.before.remote = None /\ Did(c, "read_local") /\ c.before.local # None
                   /\ deserialize(c.before.local[1]).how # "incompatible") =>
                     c.ret = deserialize(c.before.local[1]).state

\* C16 (as claimed): when the remote object is present and cannot be
\* deserialised even after migration, load fails with the Incompatible state
\* error, does not read the local file, returns no state and leaves both
\* sinks as they were.
C16_IncompatibleRemote ==
    \A i \in 1..Len(calls) :
        (calls[i].op = "load" /\ RemoteOf(calls[i]).how = "incompatible") =>
            /\ calls[i].result = "State_incompatible"
            /\ calls[i].ret = None
            /\ ~Did(calls[i], "read_local")
            /\ ~Did(calls[i], "read_local_failed")
            /\ calls[i].after = calls[i].before

MaxMigrations == 2

\* Records a raw resources object can hold under a type-tag key: one with
\* either resource_id, or one without a resource_id string.
RawRecords(k) ==
    {JsonRecord(k, id) : id \in {Some(<<"data">>), Some(<<"trail">>), None}}

\* Raw resources objects keyed by type tag.
RawResources ==
    UNION {{res \in [K -> UNION {RawRecords(k) : k \in K}] :
               \A k \in K : res[k] \in RawRecords(k)} :
           K \in SUBSET {<<"s3_bucket">>, <<"cloudtrail_trail">>}}

\* Raw values handed to the migration: objects with or without a
\* manifest_version field, with or without region and bucket, and a value
\* that is no object.
RawValues ==
    {JsonObject(Some(res), mv, cfg[1], cfg[2]) :
        res \in RawResources,
        mv \in {None, Some(None), Some(Some(VERSION))},
        cfg \in {<<None, None>>, <<Some("us-east-1"), Some("claria-data")>>}}
    \cup {JsonArray}

\* The slow path of load_from_s3 has parsed the remote object as a raw value.
InitMigrate ==
    /\ remote \in {Some(raw) : raw \in RawValues}
    /\ local = None
    /\ state = DefaultState
    /\ calls = <<>>
    /\ result = "running"
    /\ pc = "raw"
    /\ aws = [a \in SyncerAddrs |-> "insync"]
    /\ entries = <<>>
    /\ planSrc = "caller"
    /\ phase = "none"
    /\ idx = 0
    /\ nFlush = 0
    /\ nMut = 0
    /\ persistedMut = 0
    /\ onEntry = state
    /\ replan = <<>>

\* migrate_state_v1_to_v2 is applied to the raw value, or to its own last
\* output, and the output is handed to from_value.
MigrateCall ==
    /\ Len(calls) < MaxMigrations
    /\ LET old == IF calls = <<>> THEN remote[1] ELSE calls[Len(calls)].ret
           new == migrate_state_v1_to_v2(old)
       IN /\ calls' = Append(calls, [op |-> "migrate", arg |-> old, ret |-> new,
                                     parsed |-> from_value(new)])
          /\ result' = IF from_value(new) # None THEN "Ok" ELSE "Incompatible"
          /\ state' = IF from_value(new) # None THEN from_value(new)[1] ELSE state
    /\ pc' = "migrated"
    /\ UNCHANGED <<aws, local, remote, entries, planSrc, phase, idx, nFlush, nMut,
                   persistedMut, onEntry, replan>>

NextMigrate ==
    \/ MigrateCall

SpecMigrate == InitMigrate /\ [][NextMigrate]_vars

\* A legacy v1 state file: an object without manifest_version, with region
\* and bucket, whose resources are keyed by a type tag (one segment) and
\* each hold a resource_id.
IsLegacyV1(raw) ==
    /\ raw.kind = "object"
    /\ raw.manifest_version = <<>>
    /\ raw.resources # <<>>
    /\ raw.region # <<>>
    /\ raw.bucket # <<>>
    /\ \A k \in DOMAIN raw.resources[1] :
          Len(k) = 1 /\ raw.resources[1][k].resource_id # <<>>

\* C17 (as claimed): for a legacy v1 state L, migrate(L) has exactly one
\* resource per resource of L, keyed "{type_tag}.{resource_id}" with the
\* record unchanged, keeps the other fields, and deserialises as a
\* ProvisionerState whose manifest_version is None.
C17_MigrateLegacy ==
    (calls # <<>> /\ IsLegacyV1(calls[1].arg)) =>
        LET L == calls[1].arg
            M == calls[1].ret
        IN /\ M.kind = "object"
           /\ M.resources # <<>>
           /\ Cardinality(DOMAIN M.resources[1]) = Cardinality(DOMAIN L.resources[1])
           /\ \A k \in DOMAIN L.resources[1] :
                 LET nk == k \o L.resources[1][k].resource_id[1]
                 IN /\ nk \in DOMAIN M.resources[1]
                    /\ M.resources[1][nk] = L.resources[1][k]
           /\ M.region = L.region
           /\ M.bucket = L.bucket
           /\ calls[1].parsed # <<>>
           /\ calls[1].parsed[1].manifest_version = <<>>

\* C18 (as claimed): the output of the migration carries a manifest_version
\* field, and applying the migration to its own output returns that output
\* unchanged.
C18_MigrateIdempotent ==
    \A i \in 1..Len(calls) :
        /\ calls[i].ret.kind = "object" => calls[i].ret.manifest_version # <<>>
        /\ i > 1 => calls[i].ret = calls[i].arg


\* ===========================================================================
\* destroy_all()
\* ===========================================================================

\* destroy_all() is entered with a state the caller holds; the state files
\* hold what flush() last wrote.
InitDestroy ==
    /\ aws \in [SyncerAddrs -> {"insync", "absent"}]
    /\ \E S \in SUBSET (ManagedAddrs \cup OrphanAddrs), mv \in StoredVersions :
          state = StoredState(S, mv)
    /\ local = LastPersisted(state)
    /\ remote = LastPersisted(state)
    /\ entries = <<>>
    /\ planSrc = "caller"
    /\ pc = "walk"
    /\ phase = "loop"
    /\ idx = Len(Syncers)
    /\ calls = <<>>
    /\ nFlush = 0
    /\ nMut = 0
    /\ persistedMut = 0
    /\ onEntry = state
    /\ result = "running"
    /\ replan = <<>>

\* The syncer the loop `for syncer in syncers.iter().rev()` stands at.
DestroyAddr == addr(Syncers[idx])

DestroyCall(outcome) ==
    [entry |-> idx, addr |-> DestroyAddr, op |-> "destroy", outcome |-> outcome,
     synced |-> (persistedMut = nMut)]

\* The syncer's address is not in state.resources: nothing is done for it.
DestroySkip ==
    /\ pc = "walk"
    /\ idx >= 1
    /\ DestroyAddr \notin DOMAIN state.resources
    /\ idx' = idx - 1
    /\ UNCHANGED <<aws, state, local, remote, entries, planSrc, pc, phase, calls,
                   nFlush, nMut, persistedMut, onEntry, result, replan>>

\* syncer.destroy() succeeds; the address is removed from state.
DestroyOk ==
    /\ pc = "walk"
    /\ idx >= 1
    /\ DestroyAddr \in DOMAIN state.resources
    /\ Syncers[idx].lifecycle = "Managed"
    /\ aws' = [aws EXCEPT ![DestroyAddr] = "absent"]
    /\ state' = [state EXCEPT !.resources = remove(@, DestroyAddr)]
    /\ calls' = Append(calls, DestroyCall("ok"))
    /\ nMut' = nMut + 1
    /\ pc' = "flush_local"
    /\ UNCHANGED <<local, remote, entries, planSrc, phase, idx, nFlush,
                   persistedMut, onEntry, result, replan>>

\* syncer.destroy() returns Err: `?` returns it from destroy_all.
DestroyFails ==
    /\ pc = "walk"
    /\ idx >= 1
    /\ DestroyAddr \in DOMAIN state.resources
    /\ calls' = Append(calls, DestroyCall("err"))
    /\ pc' = "error"
    /\ result' = "syncer_err"
    /\ UNCHANGED <<aws, state, local, remote, entries, planSrc, phase, idx, nFlush,
                   nMut, persistedMut, onEntry, replan>>

\* After the loop: state.resources.clear(); state.manifest_version = None.
DestroyClear ==
    /\ pc = "walk"
    /\ idx = 0
    /\ state' = [resources |-> [a \in {} |-> a], manifest_version |-> None]
    /\ phase' = "final"
    /\ pc' = "flush_local"
    /\ UNCHANGED <<aws, local, remote, entries, planSrc, idx, calls, nFlush, nMut,
                   persistedMut, onEntry, result, replan>>

\* flush(), step 1: the state is serialised and written to the local file.
DestroyFlushLocal ==
    /\ pc = "flush_local"
    /\ serializable(state)
    /\ nFlush' = nFlush + 1
    /\ local' = state
    /\ persistedMut' = nMut
    /\ pc' = "flush_remote"
    /\ UNCHANGED <<aws, state, remote, entries, planSrc, phase, idx, calls, nMut,
                   onEntry, result, replan>>

\* flush(), step 1 fails (serialisation or local I/O): destroy_all returns it.
DestroyFlushLocalFails ==
    /\ pc = "flush_local"
    /\ nFlush' = nFlush + 1
    /\ pc' = "error"
    /\ result' = "flush_err"
    /\ UNCHANGED <<aws, state, local, remote, entries, planSrc, phase, idx, calls,
                   nMut, persistedMut, onEntry, replan>>

\* Control after flush() has returned Ok inside destroy_all.
DestroyAfterFlush ==
    IF phase = "final"
    THEN /\ pc' = "done"
         /\ result' = "Ok"
         /\ UNCHANGED idx
    ELSE /\ pc' = "walk"
         /\ idx' = idx - 1
         /\ UNCHANGED result

\* flush(), step 2: the upload succeeds.
DestroyFlushRemote ==
    /\ pc = "flush_remote"
    /\ remote' = state
    /\ DestroyAfterFlush
    /\ UNCHANGED <<aws, state, local, entries, planSrc, phase, calls, nFlush, nMut,
                   persistedMut, onEntry, replan>>

\* flush(), step 2: the upload fails; logged only.
DestroyFlushRemoteFails ==
    /\ pc = "flush_remote"
    /\ DestroyAfterFlush
    /\ UNCHANGED <<aws, state, local, remote, entries, planSrc, phase, calls, nFlush,
                   nMut, persistedMut, onEntry, replan>>

NextDestroy ==
    \/ DestroySkip
    \/ DestroyOk
    \/ DestroyFails
    \/ DestroyClear
    \/ DestroyFlushLocal
    \/ DestroyFlushLocalFails
    \/ DestroyFlushRemote
    \/ DestroyFlushRemoteFails

SpecDestroy == InitDestroy /\ [][NextDestroy]_vars

\* Addresses whose destroy has returned Ok so far.
Destroyed == {calls[i].addr : i \in {j \in 1..Len(calls) : calls[j].outcome = "ok"}}

\* C20 (as claimed): destroy is called in reverse syncer order, only for
\* addresses that were in state.resources, each call after the flush of the
\* removal before it; on Ok state.resources is empty, manifest_version is
\* None, the local file holds that state, every recorded address with a
\* syncer was destroyed and no call was made for the others; when a destroy
\* fails destroy_all returns that error and the persisted state records
\* exactly the resources not yet destroyed.
C20_DestroyAll ==
    /\ \A i, j \in 1..Len(calls) : i < j => calls[i].entry > calls[j].entry
    /\ \A i \in 1..Len(calls) :
          /\ calls[i].addr \in DOMAIN onEntry.resources
          /\ calls[i].addr = addr(Syncers[calls[i].entry])
          /\ calls[i].synced
    /\ result = "Ok" =>
          /\ DOMAIN state.resources = {}
          /\ state.manifest_version = <<>>
          /\ local = state
          /\ Destroyed = DOMAIN onEntry.resources \cap SyncerAddrs
    /\ result = "syncer_err" =>
          /\ calls[Len(calls)].outcome = "err"
          /\ DOMAIN state.resources = DOMAIN onEntry.resources \ Destroyed
          /\ DOMAIN local.resources = DOMAIN onEntry.resources \ Destroyed

\* ===========================================================================
\* account_setup: bootstrap_account()
\*
\* In this specification the shared variables hold:
\*   aws      the IAM side of the account (policy versions, claria-admin user,
\*            its attachment and access keys, the source access key)
\*   onEntry  the arguments of bootstrap_account
\*   state    the locals of bootstrap_account (account_id, policy_arn,
\*            user_arn, the new key)
\*   entries  the local `steps`
\*   calls    the AWS requests the current run has sent, in order
\*   idx      `attempt` of validate_new_credentials
\*   result   the local `result`: the BootstrapResult being built, then returned
\*   nMut     number of bootstrap_account runs started
\*   replan   the BootstrapResult of the previous run, if any
\*   local    the caller's delete_user_access_key calls, each with the number
\*            of the run it followed
\* ===========================================================================

\* Runs of bootstrap_account in one behaviour.
MaxRuns == 2

\* `for attempt in 0..10`
ValidateAttempts == 10

\* `if existing_key_count >= 2`
KeyLimit == 2

\* IAM keeps at most this many versions of a managed policy.
PolicyVersionCap == 5

IAM_USER_NAME == "claria-admin"

IAM_POLICY_NAME == "ClariaProvisionerAccess"

\* Access key ids: the key of the credentials in use, keys claria-admin
\* already has, and the key IAM issues in the n-th run.
SourceKey == <<"source", 0>>

OldKeys == {<<"old", 1>>, <<"old", 2>>}

FreshKey(n) == <<"new", n>>

\* One AWS request and how it was answered.
ApiCall(api, cred, out, key) == [api |-> api, cred |-> cred, out |-> out, key |-> key]

\* ProvisionerError::Aws(msg) and its Display ("AWS error: {0}").
AwsError(msg) == [kind |-> "Aws", msg |-> msg]

to_string(e) == "AWS error: " \o e.msg

RetOk(v) == [ok |-> TRUE, val |-> v]

RetErr(e) == [ok |-> FALSE, val |-> e]

\* What a helper of bootstrap_account did: requests sent, value returned,
\* IAM afterwards.
Did3(cs, ret, w) == [calls |-> cs, ret |-> ret, world |-> w]

\* update_policy_document(): a new default version; at the version cap the
\* oldest non-default version is deleted and the request retried once.
update_policy_document(w) ==
    LET cpv(out) == ApiCall("iam:CreatePolicyVersion", "source", out, None)
        lst(out) == ApiCall("iam:ListPolicyVersions", "source", out, None)
        del(out) == ApiCall("iam:DeletePolicyVersion", "source", out, None)
        failed   == RetErr(AwsError("iam:CreatePolicyVersion failed"))
        pruned   == [w EXCEPT !.versions = @ - 1]
    IN  {Did3(<<cpv("err")>>, failed, w)}
        \cup
        (IF w.versions < PolicyVersionCap
         THEN {Did3(<<cpv("ok")>>, RetOk("unit"), [w EXCEPT !.versions = @ + 1])}
         ELSE {Did3(<<cpv("limit"), lst("err")>>,
                    RetErr(AwsError("iam:ListPolicyVersions failed")), w),
               Did3(<<cpv("limit"), lst("ok"), del("err")>>,
                    RetErr(AwsError("iam:DeletePolicyVersion failed")), w),
               Did3(<<cpv("limit"), lst("ok"), del("ok"), cpv("err")>>,
                    RetErr(AwsError("iam:CreatePolicyVersion (retry) failed")), pruned),
               Did3(<<cpv("limit"), lst("ok"), del("ok"), cpv("ok")>>,
                    RetOk("unit"), w)})

\* create_policy(): on EntityAlreadyExists the existing policy gets a new
\* default version.
create_policy(w, account_id) ==
    LET cp(out) == ApiCall("iam:CreatePolicy", "source", out, None)
        arn     == "arn:policy/" \o IAM_POLICY_NAME
        failed  == RetErr(AwsError("iam:CreatePolicy failed"))
    IN  {Did3(<<cp("err")>>, failed, w)}
        \cup
        (IF w.versions = 0
         THEN {Did3(<<cp("ok")>>, RetOk(arn), [w EXCEPT !.versions = 1])}
         ELSE IF account_id # None
              THEN {Did3(<<cp("conflict")>> \o u.calls,
                         IF u.ret.ok THEN RetOk(arn) ELSE u.ret, u.world) :
                       u \in update_policy_document(w)}
              ELSE {Did3(<<cp("conflict")>>, failed, w)})

\* create_user(): on EntityAlreadyExists the existing user is read.
create_user(w) ==
    LET cu(out) == ApiCall("iam:CreateUser", "source", out, None)
        gu(out) == ApiCall("iam:GetUser", "source", out, None)
        arn     == "arn:user/" \o IAM_USER_NAME
    IN  {Did3(<<cu("err")>>, RetErr(AwsError("iam:CreateUser failed")), w)}
        \cup
        (IF ~w.user
         THEN {Did3(<<cu("ok")>>, RetOk(arn), [w EXCEPT !.user = TRUE])}
         ELSE {Did3(<<cu("conflict"), gu("ok")>>, RetOk(arn), w),
               Did3(<<cu("conflict"), gu("err")>>,
                    RetErr(AwsError("iam:GetUser failed")), w)})

attach_policy(w) ==
    LET ap(out) == ApiCall("iam:AttachUserPolicy", "source", out, None)
    IN  {Did3(<<ap("ok")>>, RetOk("unit"), [w EXCEPT !.attached = TRUE]),
         Did3(<<ap("err")>>, RetErr(AwsError("iam:AttachUserPolicy failed")), w)}

\* The pre-check of step 4: list_access_keys ... .unwrap_or(0).
existing_key_count(w) ==
    LET lk(out) == ApiCall("iam:ListAccessKeys", "source", out, None)
    IN  {Did3(<<lk("ok")>>, Cardinality(w.keys), w),
         Did3(<<lk("err")>>, 0, w)}

\* create_access_key(): IAM refuses a third key for the user.
create_access_key(w, n) ==
    LET ck(out, k) == ApiCall("iam:CreateAccessKey", "source", out, k)
    IN  {Did3(<<ck("err", None)>>, RetErr(AwsError("iam:CreateAccessKey failed")), w)}
        \cup
        (IF Cardinality(w.keys) < KeyLimit
         THEN {Did3(<<ck("ok", Some(FreshKey(n)))>>, RetOk(FreshKey(n)),
                    [w EXCEPT !.keys = @ \cup {FreshKey(n)}])}
         ELSE {})

\* delete_access_key(): without a user name the key is the caller's own.
delete_access_key(w, access_key_id, user_name) ==
    LET dk(out) == ApiCall("iam:DeleteAccessKey", "source", out, Some(access_key_id))
        gone    == IF user_name = None
                   THEN [w EXCEPT !.source = (access_key_id # SourceKey) /\ @]
                   ELSE [w EXCEPT !.keys = @ \ {access_key_id}]
        known   == IF user_name = None
                   THEN w.source /\ access_key_id = SourceKey
                   ELSE access_key_id \in w.keys
    IN  {Did3(<<dk("err")>>, RetErr(AwsError("iam:DeleteAccessKey failed")), w)}
        \cup
        (IF known THEN {Did3(<<dk("ok")>>, RetOk("unit"), gone)} ELSE {})

push_step(steps, name, status, detail) ==
    Append(steps, [name |-> name, status |-> status, detail |-> detail])

\* set_step_status(): the last step with that name, if any.
set_step_status(steps, name, status, detail) ==
    LET hits == {i \in 1..Len(steps) : steps[i].name = name}
    IN  IF hits = {} THEN steps
        ELSE LET i == CHOOSE h \in hits : \A g \in hits : g <= h
             IN  [steps EXCEPT ![i] = [name |-> name, status |-> status,
                                        detail |-> detail]]

BootstrapResult(success, steps, account_id, new_credentials, error) ==
    [success |-> success, steps |-> steps, account_id |-> account_id,
     new_credentials |-> new_credentials, error |-> error]

NewCredentials(access_key_id, iam_user_arn) ==
    [access_key_id |-> access_key_id, iam_user_arn |-> iam_user_arn]

\* IAM as a run can find it.
IamWorlds ==
    {w \in [versions : {0, PolicyVersionCap - 1, PolicyVersionCap},
            user : BOOLEAN, attached : BOOLEAN,
            keys : SUBSET OldKeys, source : {TRUE}] :
        /\ w.attached => (w.versions > 0 /\ w.user)
        /\ ~w.user => w.keys = {}}

BootLocals == [account_id |-> None, policy_arn |-> None, user_arn |-> None,
               new_key |-> None]

InitBootstrap ==
    /\ aws \in IamWorlds
    /\ onEntry \in [credential_class : {"Root", "IamAdmin"},
                    source_access_key_id : {SourceKey}]
    /\ state = BootLocals
    /\ entries = <<>>
    /\ calls = <<>>
    /\ idx = 0
    /\ result = BootstrapResult(FALSE, <<>>, None, None, None)
    /\ pc = "identity"
    /\ nMut = 1
    /\ replan = None
    /\ local = <<>>
    /\ remote = None
    /\ planSrc = "caller"
    /\ phase = "none"
    /\ nFlush = 0
    /\ persistedMut = 0

\* Variables no step of bootstrap_account touches.
BootFrame == UNCHANGED <<onEntry, nMut, replan, local, remote, planSrc, phase,
                         nFlush, persistedMut>>

\* `result.error = ...; result.steps = steps; return result;`
Halt(steps, msg) ==
    /\ result' = BootstrapResult(FALSE, steps, state.account_id, None, Some(msg))
    /\ pc' = "returned"

\* get_caller_identity() with the source credentials succeeds.
IdentityOk ==
    /\ pc = "identity"
    /\ calls' = Append(calls, ApiCall("sts:GetCallerIdentity", "source", "ok", None))
    /\ state' = [state EXCEPT !.account_id = Some("account")]
    /\ pc' = "create_policy"
    /\ UNCHANGED <<aws, entries, idx, result>>
    /\ BootFrame

\* get_caller_identity() fails: the result is returned with no step.
IdentityFails ==
    /\ pc = "identity"
    /\ calls' = Append(calls, ApiCall("sts:GetCallerIdentity", "source", "err", None))
    /\ Halt(entries, "Failed to validate credentials")
    /\ UNCHANGED <<aws, state, entries, idx>>
    /\ BootFrame

\* Step 1 succeeds.
CreatePolicyOk ==
    /\ pc = "create_policy"
    /\ \E d \in create_policy(aws, state.account_id) :
          /\ d.ret.ok
          /\ calls' = calls \o d.calls
          /\ aws' = d.world
          /\ state' = [state EXCEPT !.policy_arn = Some(d.ret.val)]
          /\ entries' = set_step_status(
                 push_step(entries, "create_policy", "InProgress", None),
                 "create_policy", "Succeeded", None)
    /\ pc' = "create_user"
    /\ UNCHANGED <<idx, result>>
    /\ BootFrame

\* Step 1 fails.
CreatePolicyFails ==
    /\ pc = "create_policy"
    /\ \E d \in create_policy(aws, state.account_id) :
          /\ ~d.ret.ok
          /\ calls' = calls \o d.calls
          /\ aws' = d.world
          /\ entries' = set_step_status(
                 push_step(entries, "create_policy", "InProgress", None),
                 "create_policy", "Failed", Some(to_string(d.ret.val)))
          /\ Halt(entries', "Failed to create IAM policy")
    /\ UNCHANGED <<state, idx>>
    /\ BootFrame

\* Step 2 succeeds.
CreateUserOk ==
    /\ pc = "create_user"
    /\ \E d \in create_user(aws) :
          /\ d.ret.ok
          /\ calls' = calls \o d.calls
          /\ aws' = d.world
          /\ state' = [state EXCEPT !.user_arn = Some(d.ret.val)]
          /\ entries' = set_step_status(
                 push_step(entries, "create_user", "InProgress", None),
                 "create_user", "Succeeded", None)
    /\ pc' = "attach_policy"
    /\ UNCHANGED <<idx, result>>
    /\ BootFrame

\* Variant: a failed step 2 is recorded and the sequence goes on.
CreateUserFails_continues ==
    /\ pc = "create_user"
    /\ \E d \in create_user(aws) :
          /\ ~d.ret.ok
          /\ calls' = calls \o d.calls
          /\ aws' = d.world
          /\ entries' = set_step_status(
                 push_step(entries, "create_user", "InProgress", None),
                 "create_user", "Failed", Some(to_string(d.ret.val)))
    /\ pc' = "attach_policy"
    /\ UNCHANGED <<state, idx, result>>
    /\ BootFrame

\* Step 2 fails.
CreateUserFails ==
    /\ pc = "create_user"
    /\ \E d \in create_user(aws) :
          /\ ~d.ret.ok
          /\ calls' = calls \o d.calls
          /\ aws' = d.world
          /\ entries' = set_step_status(
                 push_step(entries, "create_user", "InProgress", None),
                 "create_user", "Failed", Some(to_string(d.ret.val)))
          /\ Halt(entries', "Failed to create IAM user")
    /\ UNCHANGED <<state, idx>>
    /\ BootFrame

\* Step 3 succeeds.
AttachPolicyOk ==
    /\ pc = "attach_policy"
    /\ \E d \in attach_policy(aws) :
          /\ d.ret.ok
          /\ calls' = calls \o d.calls
          /\ aws' = d.world
          /\ entries' = set_step_status(
                 push_step(entries, "attach_policy", "InProgress", None),
                 "attach_policy", "Succeeded", None)
    /\ pc' = "create_access_key"
    /\ UNCHANGED <<state, idx, result>>
    /\ BootFrame

\* Step 3 fails.
AttachPolicyFails ==
    /\ pc = "attach_policy"
    /\ \E d \in attach_policy(aws) :
          /\ ~d.ret.ok
          /\ calls' = calls \o d.calls
          /\ aws' = d.world
          /\ entries' = set_step_status(
                 push_step(entries, "attach_policy", "InProgress", None),
                 "attach_policy", "Failed", Some(to_string(d.ret.val)))
          /\ Halt(entries', "Failed to attach IAM policy")
    /\ UNCHANGED <<state, idx>>
    /\ BootFrame

\* Step 4, the pre-check counts KeyLimit keys or more: key_limit_exceeded.
KeyLimitExceeded ==
    /\ pc = "create_access_key"
    /\ \E c \in existing_key_count(aws) :
          /\ c.ret >= KeyLimit
          /\ calls' = calls \o c.calls
          /\ entries' = set_step_status(
                 push_step(entries, "create_access_key", "InProgress", None),
                 "create_access_key", "Failed", Some("key_limit_exceeded"))
          /\ Halt(entries', "The user already has the maximum of access keys")
    /\ UNCHANGED <<aws, state, idx>>
    /\ BootFrame

\* Step 4 succeeds: the pre-check passes and IAM issues a key.
CreateAccessKeyOk ==
    /\ pc = "create_access_key"
    /\ \E c \in existing_key_count(aws) :
          /\ c.ret < KeyLimit
          /\ \E d \in create_access_key(aws, nMut) :
                /\ d.ret.ok
                /\ calls' = calls \o c.calls \o d.calls
                /\ aws' = d.world
                /\ state' = [state EXCEPT !.new_key = Some(d.ret.val)]
                /\ entries' = set_step_status(
                       push_step(entries, "create_access_key", "InProgress", None),
                       "create_access_key", "Succeeded", None)
    /\ pc' = "validate"
    /\ idx' = 0
    /\ UNCHANGED result
    /\ BootFrame

\* Step 4 fails in create_access_key() after the pre-check has passed.
CreateAccessKeyFails ==
    /\ pc = "create_access_key"
    /\ \E c \in existing_key_count(aws) :
          /\ c.ret < KeyLimit
          /\ \E d \in create_access_key(aws, nMut) :
                /\ ~d.ret.ok
                /\ calls' = calls \o c.calls \o d.calls
                /\ aws' = d.world
                /\ entries' = set_step_status(
                       push_step(entries, "create_access_key", "InProgress", None),
                       "create_access_key", "Failed", Some(to_string(d.ret.val)))
                /\ Halt(entries', "Failed to create access key")
    /\ UNCHANGED <<state, idx>>
    /\ BootFrame

\* The step list with validate_new_credentials pushed (once, before the loop).
ValidateSteps ==
    IF idx = 0
    THEN push_step(entries, "validate_new_credentials", "InProgress", None)
    ELSE entries

NewIdentity(out) == ApiCall("sts:GetCallerIdentity", "new", out, state.new_key)

\* validate_new_credentials(): an attempt succeeds; step 5 succeeds.
ValidateOk ==
    /\ pc = "validate"
    /\ calls' = Append(calls, NewIdentity("ok"))
    /\ entries' = set_step_status(ValidateSteps, "validate_new_credentials",
                                  "Succeeded", None)
    /\ pc' = "delete_source_key"
    /\ UNCHANGED <<aws, state, idx, result>>
    /\ BootFrame

\* Variant: one more attempt is made before giving up.
ValidateRetry_eleven ==
    /\ pc = "validate"
    /\ idx < ValidateAttempts
    /\ calls' = Append(calls, NewIdentity("err"))
    /\ entries' = ValidateSteps
    /\ idx' = idx + 1
    /\ UNCHANGED <<aws, state, pc, result>>
    /\ BootFrame

\* validate_new_credentials(): an attempt before the last fails; the loop
\* sleeps and tries again.
ValidateRetry ==
    /\ pc = "validate"
    /\ idx < ValidateAttempts - 1
    /\ calls' = Append(calls, NewIdentity("err"))
    /\ entries' = ValidateSteps
    /\ idx' = idx + 1
    /\ UNCHANGED <<aws, state, pc, result>>
    /\ BootFrame

\* validate_new_credentials(): the last attempt fails; step 5 fails.
ValidateExhausted ==
    /\ pc = "validate"
    /\ idx >= ValidateAttempts - 1
    /\ calls' = Append(calls, NewIdentity("err"))
    /\ entries' = set_step_status(
           ValidateSteps, "validate_new_credentials", "Failed",
           Some(to_string(AwsError("new credentials failed validation after 10 attempts"))))
    /\ Halt(entries', "New IAM credentials failed validation after retries")
    /\ UNCHANGED <<aws, state, idx>>
    /\ BootFrame

\* Variant: the credentials in use are handed back.
Done_returns_source ==
    /\ result' = BootstrapResult(TRUE, entries', state.account_id,
                     Some(NewCredentials(onEntry.source_access_key_id, state.user_arn[1])),
                     None)
    /\ pc' = "returned"

\* `result.success = true; result.new_credentials = Some(..); result`
Done ==
    /\ result' = BootstrapResult(TRUE, entries', state.account_id,
                     Some(NewCredentials(state.new_key[1], state.user_arn[1])),
                     None)
    /\ pc' = "returned"

\* Step 6, Root: the source key is deleted.
DeleteSourceKeyOk ==
    /\ pc = "delete_source_key"
    /\ onEntry.credential_class = "Root"
    /\ \E d \in delete_access_key(aws, onEntry.source_access_key_id, None) :
          /\ d.ret.ok
          /\ calls' = calls \o d.calls
          /\ aws' = d.world
          /\ entries' = set_step_status(
                 push_step(entries, "delete_source_key", "InProgress", None),
                 "delete_source_key", "Succeeded", None)
    /\ Done
    /\ UNCHANGED <<state, idx>>
    /\ BootFrame

\* Step 6, Root: deleting the source key fails; the run still succeeds.
DeleteSourceKeyFails ==
    /\ pc = "delete_source_key"
    /\ onEntry.credential_class = "Root"
    /\ \E d \in delete_access_key(aws, onEntry.source_access_key_id, None) :
          /\ ~d.ret.ok
          /\ calls' = calls \o d.calls
          /\ aws' = d.world
          /\ entries' = set_step_status(
                 push_step(entries, "delete_source_key", "InProgress", None),
                 "delete_source_key", "Failed",
                 Some("Could not delete root access key. Error: "
                          \o to_string(d.ret.val)))
    /\ Done
    /\ UNCHANGED <<state, idx>>
    /\ BootFrame

\* Variant: the source key is deleted whatever the credential class.
DeleteSourceKeySkipped_deletes ==
    /\ pc = "delete_source_key"
    /\ onEntry.credential_class # "Root"
    /\ \E d \in delete_access_key(aws, onEntry.source_access_key_id, None) :
          /\ d.ret.ok
          /\ calls' = calls \o d.calls
          /\ aws' = d.world
          /\ entries' = set_step_status(
                 push_step(entries, "delete_source_key", "InProgress", None),
                 "delete_source_key", "Succeeded", None)
    /\ Done
    /\ UNCHANGED <<state, idx>>
    /\ BootFrame

\* Step 6, not Root: recorded as skipped, no request is sent.
DeleteSourceKeySkipped ==
    /\ pc = "delete_source_key"
    /\ onEntry.credential_class # "Root"
    /\ entries' = push_step(entries, "delete_source_key", "Succeeded",
                            Some("Skipped: source credentials are not root."))
    /\ Done
    /\ UNCHANGED <<aws, state, calls, idx>>
    /\ BootFrame

\* delete_user_access_key(): the caller deletes one key of claria-admin
\* between two runs.
DeleteUserAccessKey ==
    /\ pc = "returned"
    /\ nMut < MaxRuns
    /\ \A i \in 1..Len(local) : local[i].run # nMut
    /\ \E k \in aws.keys :
          \E d \in delete_access_key(aws, k, Some(IAM_USER_NAME)) :
             /\ aws' = d.world
             /\ local' = Append(local, [run |-> nMut, key |-> k, ok |-> d.ret.ok])
    /\ UNCHANGED <<state, onEntry, entries, calls, idx, result, pc, nMut, replan,
                   remote, planSrc, phase, nFlush, persistedMut>>

\* The caller runs bootstrap_account again with the same arguments.
Rerun ==
    /\ pc = "returned"
    /\ nMut < MaxRuns
    /\ aws.source
    /\ nMut' = nMut + 1
    /\ replan' = Some(result)
    /\ result' = BootstrapResult(FALSE, <<>>, None, None, None)
    /\ state' = BootLocals
    /\ entries' = <<>>
    /\ calls' = <<>>
    /\ idx' = 0
    /\ pc' = "identity"
    /\ UNCHANGED <<aws, onEntry, local, remote, planSrc, phase, nFlush, persistedMut>>

NextBootstrap ==
    \/ IdentityOk
    \/ IdentityFails
    \/ CreatePolicyOk
    \/ CreatePolicyFails
    \/ CreateUserOk
    \/ CreateUserFails
    \/ AttachPolicyOk
    \/ AttachPolicyFails
    \/ KeyLimitExceeded
    \/ CreateAccessKeyOk
    \/ CreateAccessKeyFails
    \/ ValidateOk
    \/ ValidateRetry
    \/ ValidateExhausted
    \/ DeleteSourceKeyOk
    \/ DeleteSourceKeyFails
    \/ DeleteSourceKeySkipped
    \/ DeleteUserAccessKey
    \/ Rerun

SpecBootstrap == InitBootstrap /\ [][NextBootstrap]_vars

\* The step names in the order the report is claimed to list them.
StepOrder ==
    <<"create_policy", "create_user", "attach_policy", "create_access_key",
      "validate_new_credentials", "delete_source_key">>

\* The bootstrap step an AWS request belongs to (0: before the first step).
StepOfCall(c) ==
    IF c.api \in {"iam:CreatePolicy", "iam:CreatePolicyVersion",
                  "iam:ListPolicyVersions", "iam:DeletePolicyVersion"} THEN 1
    ELSE IF c.api \in {"iam:CreateUser", "iam:GetUser"} THEN 2
    ELSE IF c.api = "iam:AttachUserPolicy" THEN 3
    ELSE IF c.api \in {"iam:ListAccessKeys", "iam:CreateAccessKey"} THEN 4
    ELSE IF c.api = "sts:GetCallerIdentity" /\ c.cred = "new" THEN 5
    ELSE IF c.api = "iam:DeleteAccessKey" THEN 6
    ELSE 0

\* The first five steps of a step list all succeeded.
FiveSucceeded(steps) ==
    /\ Len(steps) >= 5
    /\ \A i \in 1..5 : steps[i].name = StepOrder[i] /\ steps[i].status = "Succeeded"

\* The results returned so far: the current run's and the previous run's.
Returned ==
    (IF pc = "returned" THEN {result} ELSE {})
    \cup (IF replan = None THEN {} ELSE {replan[1]})

\* Requests of the current run sent with the new key.
NewCalls == {i \in 1..Len(calls) : calls[i].cred = "new"}

\* C21: the step names of a report are a prefix of the fixed sequence; a
\* failed step among the first five is the last step of the report, the run
\* has returned with success false, and no request of a later step was sent.
C21_StepsHaltOnFailure ==
    /\ Len(entries) <= Len(StepOrder)
    /\ \A i \in 1..Len(entries) : entries[i].name = StepOrder[i]
    /\ \A r \in Returned :
          /\ Len(r.steps) <= Len(StepOrder)
          /\ \A i \in 1..Len(r.steps) : r.steps[i].name = StepOrder[i]
          /\ \A i \in 1..Len(r.steps) :
                (i <= 5 /\ r.steps[i].status = "Failed") =>
                    (i = Len(r.steps) /\ ~r.success)
    /\ \A i \in 1..Len(entries) :
          (i <= 5 /\ entries[i].status = "Failed") =>
              /\ i = Len(entries)
              /\ pc = "returned"
              /\ result.steps = entries
              /\ ~result.success
              /\ \A j \in 1..Len(calls) : StepOfCall(calls[j]) <= i
              /\ StepOfCall(calls[Len(calls)]) = i

C21_Witness ==
    /\ pc = "returned"
    /\ Len(result.steps) = 3
    /\ result.steps[3].name = "attach_policy"
    /\ result.steps[3].status = "Failed"
    /\ result.steps[1].status = "Succeeded"
    /\ result.steps[2].status = "Succeeded"
    /\ ~result.success

\* C22: bootstrap_account sends DeleteAccessKey only for credential class
\* Root, only for the source key and only after the new credentials were
\* validated; for IamAdmin it sends none; when the deletion fails the step is
\* Failed while success is true and the new credentials are returned.
C22_SourceKeyDeletion ==
    /\ \A j \in 1..Len(calls) :
          calls[j].api = "iam:DeleteAccessKey" =>
              /\ onEntry.credential_class = "Root"
              /\ calls[j].key = Some(onEntry.source_access_key_id)
              /\ \E i \in 1..(j - 1) :
                    /\ calls[i].api = "sts:GetCallerIdentity"
                    /\ calls[i].cred = "new"
                    /\ calls[i].out = "ok"
    /\ ~aws.source =>
          /\ onEntry.credential_class = "Root"
          /\ pc = "returned"
          /\ FiveSucceeded(result.steps)
    /\ \A r \in Returned :
          \A i \in 1..Len(r.steps) :
             r.steps[i].name = "delete_source_key" =>
                 /\ FiveSucceeded(r.steps)
                 /\ r.success
                 /\ r.new_credentials # None
                 /\ (r.steps[i].status = "Failed" => onEntry.credential_class = "Root")

C22_Witness ==
    /\ pc = "returned"
    /\ onEntry.credential_class = "Root"
    /\ Len(result.steps) = 6
    /\ result.steps[6].status = "Failed"
    /\ result.success
    /\ result.new_credentials # None
    /\ aws.source
    /\ calls[Len(calls)].api = "iam:DeleteAccessKey"

\* The access keys claria-admin had when the current run reached step 4.
KeysAtStep4 == aws.keys \ {FreshKey(nMut)}

\* The report ends with create_access_key Failed, detail "key_limit_exceeded".
EndsKeyLimit(r) ==
    /\ Len(r.steps) = 4
    /\ r.steps[4].name = "create_access_key"
    /\ r.steps[4].status = "Failed"
    /\ r.steps[4].detail = Some("key_limit_exceeded")

C24_CredentialsIffSuccess ==
    /\ \A r \in Returned :
          /\ (r.new_credentials # None) <=> r.success
          /\ r.success <=> FiveSucceeded(r.steps)
          /\ r.success =>
                r.new_credentials[1].access_key_id # onEntry.source_access_key_id
    /\ (pc = "returned" /\ result.success) =>
          \E j \in 1..Len(calls) :
             /\ calls[j].api = "iam:CreateAccessKey"
             /\ calls[j].out = "ok"
             /\ calls[j].key = Some(result.new_credentials[1].access_key_id)

C24_Witness ==
    /\ pc = "returned"
    /\ onEntry.credential_class = "IamAdmin"
    /\ result.success
    /\ result.new_credentials = Some(NewCredentials(FreshKey(nMut),
                                                    "arn:user/" \o IAM_USER_NAME))
    /\ FreshKey(nMut) \in aws.keys
    /\ Len(result.steps) = 6

\* What C25 says of every state: at most ValidateAttempts identity requests
\* are sent with the new key, none after one that succeeded, and after
\* ValidateAttempts failures the run has returned with step
\* validate_new_credentials Failed (an Aws error) and success false.
ValidateBounded ==
    /\ Cardinality(NewCalls) <= ValidateAttempts
    /\ \A i \in NewCalls : calls[i].out = "ok" => \A j \in NewCalls : j <= i
    /\ \A i \in NewCalls : calls[i].api = "sts:GetCallerIdentity"
    /\ (Cardinality(NewCalls) = ValidateAttempts
        /\ \A i \in NewCalls : calls[i].out = "err") =>
          /\ pc = "returned"
          /\ Len(result.steps) = 5
          /\ result.steps[5].name = "validate_new_credentials"
          /\ result.steps[5].status = "Failed"
          /\ result.steps[5].detail = Some(to_string(AwsError(
                 "new credentials failed validation after 10 attempts")))
          /\ ~result.success
    /\ (pc = "returned" /\ Len(result.steps) = 5
        /\ result.steps[5].status = "Failed") =>
          Cardinality(NewCalls) = ValidateAttempts

\* The retry loop is scheduled until it returns: every attempt is an RPC
\* followed by a sleep, both of which complete.
SpecBootstrapFair ==
    SpecBootstrap /\ WF_vars(ValidateOk \/ ValidateRetry \/ ValidateExhausted)

\* C25: validate_new_credentials terminates, within the bounds above.
C25_ValidateTerminates ==
    /\ []ValidateBounded
    /\ (pc = "validate") ~> (pc # "validate")

C25_Witness ==
    /\ pc = "returned"
    /\ Cardinality(NewCalls) = ValidateAttempts
    /\ \A i \in NewCalls : calls[i].out = "err"
    /\ result.steps[5].status = "Failed"
    /\ ~result.success

\* ===========================================================================
\* account_setup: assess_credentials()
\*
\* In this specification aws holds what the credentials under assessment are
\* answered (the caller ARN, or None when the identity call fails, and
\* whether each probe succeeds), state the locals of assess_credentials,
\* calls the requests sent and result the value returned.
\* ===========================================================================

\* ARNs as the sequence of their ':'-separated segments; "" is <<"">>.
Arns ==
    {<<"arn", "aws", "iam", "", "123456789012", "root">>,
     <<"arn", "aws", "iam", "", "123456789012", "user/alice">>,
     <<"arn", "aws", "iam", "", "123456789012", "user/root">>,
     <<"arn", "aws", "sts", "", "123456789012", "assumed-role/Admin/root">>,
     <<"root">>,
     <<"">>}

\* arn.ends_with(":root")
ends_with_root(arn) == Len(arn) >= 2 /\ arn[Len(arn)] = "root"

\* CallerIdentity as get_caller_identity() builds it.
CallerIdentity(arn) == [arn |-> arn, is_root |-> ends_with_root(arn)]

CredentialAssessment(identity, class, reason) ==
    [identity |-> identity, credential_class |-> class, reason |-> reason]

\* `if s3_ok { "ok" } else { "denied" }`
ProbeWord(ok) == IF ok THEN "ok" ELSE "denied"

\* The reason of an Insufficient assessment.
InsufficientReason(s3_ok, bedrock_ok) ==
    "Credentials lack required permissions (S3: " \o ProbeWord(s3_ok)
        \o ", Bedrock: " \o ProbeWord(bedrock_ok) \o ")."

\* Variant: one successful service probe is enough for ScopedClaria.
classify_probes_either(identity, s3_ok, bedrock_ok) ==
    IF s3_ok \/ bedrock_ok
    THEN CredentialAssessment(identity, "ScopedClaria",
                              "Credentials have the required Claria permissions.")
    ELSE CredentialAssessment(identity, "Insufficient",
                              InsufficientReason(s3_ok, bedrock_ok))

\* Step 3 of assess_credentials once both probes have answered.
classify_probes(identity, s3_ok, bedrock_ok) ==
    IF s3_ok /\ bedrock_ok
    THEN CredentialAssessment(identity, "ScopedClaria",
                              "Credentials have the required Claria permissions.")
    ELSE CredentialAssessment(identity, "Insufficient",
                              InsufficientReason(s3_ok, bedrock_ok))

InitAssess ==
    /\ aws \in [arn : {None} \cup {Some(a) : a \in Arns},
                iam : BOOLEAN, s3 : BOOLEAN, bedrock : BOOLEAN]
    /\ state = [identity |-> None, s3_ok |-> None]
    /\ calls = <<>>
    /\ result = None
    /\ pc = "identity"
    /\ onEntry = None
    /\ entries = <<>>
    /\ idx = 0
    /\ nMut = 0
    /\ replan = None
    /\ local = None
    /\ remote = None
    /\ planSrc = "caller"
    /\ phase = "none"
    /\ nFlush = 0
    /\ persistedMut = 0

AssessFrame == UNCHANGED <<aws, onEntry, entries, idx, nMut, replan, local, remote,
                           planSrc, phase, nFlush, persistedMut>>

Probe(api, ok) == ApiCall(api, "source", IF ok THEN "ok" ELSE "err", None)

\* get_caller_identity() fails: `?` returns the error.
AssessIdentityFails ==
    /\ pc = "identity"
    /\ aws.arn = None
    /\ calls' = Append(calls, Probe("sts:GetCallerIdentity", FALSE))
    /\ result' = Some(RetErr(AwsError("STS GetCallerIdentity failed")))
    /\ pc' = "returned"
    /\ UNCHANGED state
    /\ AssessFrame

\* Step 1: the identity is the account root user.
AssessRoot ==
    /\ pc = "identity"
    /\ aws.arn # None
    /\ CallerIdentity(aws.arn[1]).is_root
    /\ calls' = Append(calls, Probe("sts:GetCallerIdentity", TRUE))
    /\ state' = [state EXCEPT !.identity = Some(CallerIdentity(aws.arn[1]))]
    /\ result' = Some(RetOk(CredentialAssessment(CallerIdentity(aws.arn[1]), "Root",
                     "Credentials belong to the AWS account root user.")))
    /\ pc' = "returned"
    /\ AssessFrame

\* Step 1: the identity is not root; go on to the IAM probe.
AssessNotRoot ==
    /\ pc = "identity"
    /\ aws.arn # None
    /\ ~CallerIdentity(aws.arn[1]).is_root
    /\ calls' = Append(calls, Probe("sts:GetCallerIdentity", TRUE))
    /\ state' = [state EXCEPT !.identity = Some(CallerIdentity(aws.arn[1]))]
    /\ pc' = "iam"
    /\ UNCHANGED result
    /\ AssessFrame

\* Step 2: list_users succeeds.
AssessIamAdmin ==
    /\ pc = "iam"
    /\ aws.iam
    /\ calls' = Append(calls, Probe("iam:ListUsers", TRUE))
    /\ result' = Some(RetOk(CredentialAssessment(state.identity[1], "IamAdmin",
                     "Credentials have IAM management permissions.")))
    /\ pc' = "returned"
    /\ UNCHANGED state
    /\ AssessFrame

\* Step 2: list_users fails; go on to the service probes.
AssessNoIam ==
    /\ pc = "iam"
    /\ ~aws.iam
    /\ calls' = Append(calls, Probe("iam:ListUsers", FALSE))
    /\ pc' = "s3"
    /\ UNCHANGED <<state, result>>
    /\ AssessFrame

\* Step 3: probe_s3().
AssessProbeS3 ==
    /\ pc = "s3"
    /\ calls' = Append(calls, Probe("s3:ListBuckets", aws.s3))
    /\ state' = [state EXCEPT !.s3_ok = Some(aws.s3)]
    /\ pc' = "bedrock"
    /\ UNCHANGED result
    /\ AssessFrame

\* Step 3: probe_bedrock(), then the class is decided.
AssessProbeBedrock ==
    /\ pc = "bedrock"
    /\ calls' = Append(calls, Probe("bedrock:ListFoundationModels", aws.bedrock))
    /\ result' = Some(RetOk(classify_probes(state.identity[1], state.s3_ok[1],
                                            aws.bedrock)))
    /\ pc' = "returned"
    /\ UNCHANGED state
    /\ AssessFrame

NextAssess ==
    \/ AssessIdentityFails
    \/ AssessRoot
    \/ AssessNotRoot
    \/ AssessIamAdmin
    \/ AssessNoIam
    \/ AssessProbeS3
    \/ AssessProbeBedrock

SpecAssess == InitAssess /\ [][NextAssess]_vars

\* Requests that read and change nothing.
ReadOnlyApis ==
    {"sts:GetCallerIdentity", "iam:ListUsers", "s3:ListBuckets",
     "bedrock:ListFoundationModels"}

\* The answer the credentials get to a request of the given api, if sent.
Answered(api) ==
    \E i \in 1..Len(calls) : calls[i].api = api /\ calls[i].out = "ok"

\* C26: every request of assess_credentials is read-only; a failed identity
\* call gives an error and no class; otherwise the class is Root iff the ARN
\* ends with ":root", else IamAdmin iff list-users succeeds, else
\* ScopedClaria iff both service probes succeed, else Insufficient with a
\* reason that says for each probe whether it was denied.
C26_AssessPriority ==
    /\ \A i \in 1..Len(calls) : calls[i].api \in ReadOnlyApis
    /\ pc = "returned" =>
          IF aws.arn = None
          THEN ~result[1].ok
          ELSE LET arn   == aws.arn[1]
                   root  == Len(arn) >= 2 /\ arn[Len(arn)] = "root"
                   a     == result[1].val
                   class == IF root THEN "Root"
                            ELSE IF aws.iam THEN "IamAdmin"
                            ELSE IF aws.s3 /\ aws.bedrock THEN "ScopedClaria"
                            ELSE "Insufficient"
               IN  /\ result[1].ok
                   /\ a.credential_class = class
                   /\ a.identity.arn = arn
                   /\ class = "Insufficient" =>
                         a.reason = "Credentials lack required permissions (S3: "
                                      \o (IF Answered("s3:ListBuckets") THEN "ok" ELSE "denied")
                                      \o ", Bedrock: "
                                      \o (IF Answered("bedrock:ListFoundationModels")
                                          THEN "ok" ELSE "denied")
                                      \o ")."

C26_Witness ==
    /\ pc = "returned"
    /\ result[1].ok
    /\ result[1].val.credential_class = "Insufficient"
    /\ aws.s3
    /\ ~aws.bedrock
    /\ Len(calls) = 4

\* ===========================================================================
\* The concrete syncers (syncers/*.rs) against AWS
\*
\* In this specification onEntry is the ResourceSpec of the syncer under
\* test, aws the part of AWS that syncer touches, and calls the operations
\* invoked on it so far, each with the requests it sent, the value it
\* returned and AWS before and after.
\* ===========================================================================

\* Operations invoked on one syncer in one behaviour.
MaxSyncerOps == 2

\* Manifest::claria(): the specs in manifest order.
ClariaManifest ==
    << [resource_type |-> "iam_user", resource_name |-> "claria-admin",
        lifecycle |-> "Data"],
       [resource_type |-> "iam_user_policy", resource_name |-> "claria-admin-policy",
        lifecycle |-> "Data"],
       [resource_type |-> "baa_agreement", resource_name |-> "aws-baa",
        lifecycle |-> "Managed"],
       [resource_type |-> "s3_bucket", resource_name |-> "bucket",
        lifecycle |-> "Managed"],
       [resource_type |-> "s3_bucket_versioning", resource_name |-> "bucket",
        lifecycle |-> "Managed"],
       [resource_type |-> "s3_bucket_encryption", resource_name |-> "bucket",
        lifecycle |-> "Managed"],
       [resource_type |-> "s3_bucket_public_access_block", resource_name |-> "bucket",
        lifecycle |-> "Managed"],
       [resource_type |-> "s3_bucket_policy", resource_name |-> "bucket",
        lifecycle |-> "Managed"],
       [resource_type |-> "cloudtrail_trail", resource_name |-> "trail",
        lifecycle |-> "Managed"],
       [resource_type |-> "cloudtrail_trail_logging", resource_name |-> "trail",
        lifecycle |-> "Managed"],
       [resource_type |-> "bedrock_model_agreement",
        resource_name |-> "anthropic.claude-sonnet-4", lifecycle |-> "Managed"],
       [resource_type |-> "bedrock_model_agreement",
        resource_name |-> "anthropic.claude-opus-4", lifecycle |-> "Managed"] >>

\* What a syncer's requests address: whether the object they name (the
\* bucket, the trail, the model, the account) exists, and how the setting the
\* syncer owns is configured there: not at all, as desired, or otherwise.
World(parent, conf) == [parent |-> parent, conf |-> conf]

\* Resource types whose syncer owns the named object itself.
OwnsObject == {"s3_bucket", "cloudtrail_trail"}

\* Resource types whose syncer owns a setting of a bucket or trail.
OwnsSetting ==
    {"s3_bucket_versioning", "s3_bucket_encryption", "s3_bucket_public_access_block",
     "s3_bucket_policy", "cloudtrail_trail_logging"}

WorldsOf(t) ==
    IF t = "s3_bucket"
    THEN {World(FALSE, "none"), World(TRUE, "desired")}
    ELSE IF t = "cloudtrail_trail"
    THEN {World(FALSE, "none"), World(TRUE, "desired"), World(TRUE, "other")}
    ELSE IF t \in OwnsSetting
    THEN {World(FALSE, "none"), World(TRUE, "none"), World(TRUE, "other"),
          World(TRUE, "desired")}
    ELSE {World(TRUE, "none"), World(TRUE, "desired")}

Req(api, out) == ApiCall(api, "source", out, None)

ProvErr(kind, msg) == [kind |-> kind, msg |-> msg]

\* The message of the Data syncers' create, update and destroy.
ReadOnlyPrecondition(label) ==
    ProvErr("Aws", label \o " is a read-only precondition (lifecycle: Data)")

\* A request that makes the named object: AWS refuses when it exists.
MakeObject(api, w, failure) ==
    {Did3(<<Req(api, "err")>>, RetErr(failure), w)}
    \cup (IF w.parent
          THEN {Did3(<<Req(api, "already_exists")>>, RetErr(failure), w)}
          ELSE {Did3(<<Req(api, "ok")>>, RetOk("desired"), World(TRUE, "desired"))})

\* A request that writes a setting of the named object: AWS refuses when the
\* object is missing.
PutSetting(api, w, failure, conf) ==
    {Did3(<<Req(api, "err")>>, RetErr(failure), w)}
    \cup (IF w.parent
          THEN {Did3(<<Req(api, "ok")>>, RetOk(conf), World(TRUE, conf))}
          ELSE {Did3(<<Req(api, "not_found")>>, RetErr(failure), w)})

\* A request whose answer the syncer ignores (`let _ = ...`).
Ignored(api, w, conf) ==
    {Did3(<<Req(api, "err")>>, RetOk("unit"), w)}
    \cup (IF w.parent
          THEN {Did3(<<Req(api, "ok")>>, RetOk("unit"), World(TRUE, conf))}
          ELSE {Did3(<<Req(api, "not_found")>>, RetOk("unit"), w)})

\* BedrockModelAgreementSyncer::create: only a failed model listing is an
\* error; a failed acceptance is logged.
AcceptAgreements(w) ==
    LET lst(out) == Req("bedrock:ListFoundationModels", out)
        get(out) == Req("bedrock:GetFoundationModelAvailability", out)
        off(out) == Req("bedrock:ListFoundationModelAgreementOffers", out)
        acc(out) == Req("bedrock:CreateFoundationModelAgreement", out)
    IN  {Did3(<<lst("err")>>, RetErr(ProvErr("Aws", "list")), w),
         Did3(<<lst("ok"), get("err")>>, RetOk("desired"), w)}
        \cup (IF w.conf = "desired"
              THEN {Did3(<<lst("ok"), get("ok")>>, RetOk("desired"), w)}
              ELSE {Did3(<<lst("ok"), get("ok"), off("err")>>, RetOk("desired"), w),
                    Did3(<<lst("ok"), get("ok"), off("ok"), acc("err")>>,
                         RetOk("desired"), w),
                    Did3(<<lst("ok"), get("ok"), off("ok"), acc("ok")>>,
                         RetOk("desired"), World(TRUE, "desired"))})

\* S3BucketSyncer::destroy: list, delete the objects, delete the bucket.
EmptyAndDeleteBucket(w) ==
    LET lst(out) == Req("s3:ListObjectsV2", out)
        obj(out) == Req("s3:DeleteObject", out)
        del(out) == Req("s3:DeleteBucket", out)
        failure  == RetErr(ProvErr("DeleteFailed", "s3"))
    IN  {Did3(<<lst("err")>>, failure, w)}
        \cup (IF w.parent
              THEN {Did3(<<lst("ok"), del("ok")>>, RetOk("unit"), World(FALSE, "none")),
                    Did3(<<lst("ok"), obj("ok"), del("ok")>>, RetOk("unit"),
                         World(FALSE, "none")),
                    Did3(<<lst("ok"), obj("err")>>, failure, w),
                    Did3(<<lst("ok"), del("err")>>, failure, w)}
              ELSE {Did3(<<lst("not_found")>>, failure, w)})

\* CloudTrailTrailSyncer::destroy: stop logging (answer ignored), delete.
StopAndDeleteTrail(w) ==
    LET failure == RetErr(ProvErr("DeleteFailed", "cloudtrail"))
    IN  {Did3(s.calls \o <<Req("cloudtrail:DeleteTrail", "err")>>, failure, w) :
            s \in Ignored("cloudtrail:StopLogging", w, w.conf)}
        \cup {Did3(s.calls \o
                   <<Req("cloudtrail:DeleteTrail", IF w.parent THEN "ok" ELSE "not_found")>>,
                   IF w.parent THEN RetOk("unit") ELSE failure,
                   IF w.parent THEN World(FALSE, "none") ELSE w) :
                 s \in Ignored("cloudtrail:StopLogging", w, w.conf)}

NoRequest(ret, w) == {Did3(<<>>, ret, w)}

\* ResourceSyncer::create of the syncer build_syncers makes for the type.
syncer_create(t, w) ==
    IF t = "iam_user" THEN NoRequest(RetErr(ReadOnlyPrecondition("IAM user")), w)
    ELSE IF t = "iam_user_policy"
    THEN NoRequest(RetErr(ReadOnlyPrecondition("IAM policy")), w)
    ELSE IF t = "baa_agreement"
    THEN NoRequest(RetErr(ProvErr("CreateFailed",
             "BAA agreement must be accepted in the AWS console.")), w)
    ELSE IF t = "s3_bucket"
    THEN MakeObject("s3:CreateBucket", w, ProvErr("CreateFailed", "s3"))
    ELSE IF t = "s3_bucket_versioning"
    THEN PutSetting("s3:PutBucketVersioning", w, ProvErr("CreateFailed", "s3"), "desired")
    ELSE IF t = "s3_bucket_encryption"
    THEN PutSetting("s3:PutBucketEncryption", w, ProvErr("CreateFailed", "s3"), "desired")
    ELSE IF t = "s3_bucket_public_access_block"
    THEN PutSetting("s3:PutPublicAccessBlock", w, ProvErr("CreateFailed", "s3"), "desired")
    ELSE IF t = "s3_bucket_policy"
    THEN PutSetting("s3:PutBucketPolicy", w, ProvErr("CreateFailed", "s3"), "desired")
    ELSE IF t = "cloudtrail_trail"
    THEN MakeObject("cloudtrail:CreateTrail", w, ProvErr("CreateFailed", "cloudtrail"))
    ELSE IF t = "cloudtrail_trail_logging"
    THEN PutSetting("cloudtrail:StartLogging", w, ProvErr("CreateFailed", "cloudtrail"),
                    "desired")
    ELSE AcceptAgreements(w)

\* ResourceSyncer::update: `self.create()` except for the bucket (nothing to
\* do) and the precondition syncers.
syncer_update(t, w) ==
    IF t = "baa_agreement"
    THEN NoRequest(RetErr(ProvErr("UpdateFailed",
             "BAA agreement state cannot be modified programmatically")), w)
    ELSE IF t = "s3_bucket" THEN NoRequest(RetOk("desired"), w)
    ELSE syncer_create(t, w)

\* ResourceSyncer::destroy.
syncer_destroy(t, w) ==
    IF t = "iam_user" THEN NoRequest(RetErr(ReadOnlyPrecondition("IAM user")), w)
    ELSE IF t = "iam_user_policy"
    THEN NoRequest(RetErr(ReadOnlyPrecondition("IAM policy")), w)
    ELSE IF t \in {"baa_agreement", "s3_bucket_encryption", "bedrock_model_agreement"}
    THEN NoRequest(RetOk("unit"), w)
    ELSE IF t = "s3_bucket" THEN EmptyAndDeleteBucket(w)
    ELSE IF t = "s3_bucket_versioning"
    THEN {Did3(d.calls, IF d.ret.ok THEN RetOk("unit") ELSE d.ret, d.world) :
             d \in PutSetting("s3:PutBucketVersioning", w, ProvErr("DeleteFailed", "s3"),
                              "other")}
    ELSE IF t = "s3_bucket_public_access_block"
    THEN Ignored("s3:DeletePublicAccessBlock", w, "none")
    ELSE IF t = "s3_bucket_policy"
    THEN Ignored("s3:DeleteBucketPolicy", w, "none")
    ELSE IF t = "cloudtrail_trail" THEN StopAndDeleteTrail(w)
    ELSE {Did3(d.calls, IF d.ret.ok THEN RetOk("unit") ELSE d.ret, d.world) :
             d \in PutSetting("cloudtrail:StopLogging", w,
                              ProvErr("DeleteFailed", "cloudtrail"), "none")}

\* ResourceSyncer::read when AWS answers the read request according to w:
\* None, or Some of how the setting is configured.
read_answered(t, w) ==
    IF t \in {"s3_bucket", "cloudtrail_trail", "s3_bucket_versioning",
              "cloudtrail_trail_logging"}
    THEN IF w.parent THEN Some(w.conf) ELSE None
    ELSE IF t \in {"iam_user", "iam_user_policy", "baa_agreement"}
    THEN IF w.conf = "desired" THEN Some("desired") ELSE None
    ELSE Some(w.conf)

\* ResourceSyncer::diff: the fields that differ from the spec's desired value.
syncer_diff(t, actual) ==
    IF t \in {"s3_bucket", "iam_user"} THEN {}
    ELSE IF actual = "desired" THEN {} ELSE {"drift"}

InitSyncers ==
    /\ onEntry \in {ClariaManifest[i] : i \in 1..Len(ClariaManifest)}
    /\ aws \in WorldsOf(onEntry.resource_type)
    /\ calls = <<>>
    /\ pc = "idle"
    /\ state = None
    /\ result = None
    /\ entries = <<>>
    /\ idx = 0
    /\ nMut = 0
    /\ replan = None
    /\ local = None
    /\ remote = None
    /\ planSrc = "caller"
    /\ phase = "none"
    /\ nFlush = 0
    /\ persistedMut = 0

\* One operation of the syncer, from call to return.
Invoke(op, d) ==
    /\ Len(calls) < MaxSyncerOps
    /\ calls' = Append(calls, [op |-> op, before |-> aws, calls |-> d.calls,
                               ret |-> d.ret, after |-> d.world])
    /\ aws' = d.world
    /\ UNCHANGED <<onEntry, pc, state, result, entries, idx, nMut, replan, local,
                   remote, planSrc, phase, nFlush, persistedMut>>

SyncerCreate == \E d \in syncer_create(onEntry.resource_type, aws) : Invoke("create", d)

SyncerUpdate == \E d \in syncer_update(onEntry.resource_type, aws) : Invoke("update", d)

SyncerDestroy == \E d \in syncer_destroy(onEntry.resource_type, aws) : Invoke("destroy", d)

NextSyncers ==
    \/ SyncerCreate
    \/ SyncerUpdate
    \/ SyncerDestroy

SpecSyncers == InitSyncers /\ [][NextSyncers]_vars

\* An operation none of whose requests met a failure other than the
\* resource existing already or not existing.
FaultFree(c) == \A i \in 1..Len(c.calls) : c.calls[i].out # "err"

\* An operation one of whose requests was answered with the given class.
AnsweredWith(c, out) == \E i \in 1..Len(c.calls) : c.calls[i].out = out

IsManaged == onEntry.lifecycle = "Managed"

\* C27 (as claimed): for a managed syncer, a create that AWS answers with
\* an AlreadyExists-class error returns success with the properties and
\* leaves AWS as it was; and a create after a successful create returns the
\* same value and leaves AWS the same.
C27_CreateIdempotent ==
    IsManaged =>
       /\ \A i \in 1..Len(calls) :
             (calls[i].op = "create" /\ AnsweredWith(calls[i], "already_exists")) =>
                 /\ calls[i].ret = RetOk("desired")
                 /\ calls[i].after = calls[i].before
       /\ \A i \in 1..(Len(calls) - 1) :
             (/\ calls[i].op = "create" /\ calls[i].ret.ok /\ FaultFree(calls[i])
              /\ calls[i + 1].op = "create" /\ FaultFree(calls[i + 1])) =>
                 /\ calls[i + 1].ret = calls[i].ret
                 /\ calls[i + 1].after = calls[i].after

\* The resource the syncer owns is not in AWS.
NotInAws(t, w) == IF t \in OwnsObject \cup OwnsSetting THEN ~w.parent ELSE w.conf = "none"

\* C28 (as claimed): for a managed syncer, a destroy of a resource that is
\* not in AWS returns success; a destroy after a successful destroy returns
\* success and leaves AWS the same.
C28_DestroyIdempotent ==
    IsManaged =>
       /\ \A i \in 1..Len(calls) :
             (/\ calls[i].op = "destroy" /\ FaultFree(calls[i])
              /\ NotInAws(onEntry.resource_type, calls[i].before)) =>
                 calls[i].ret.ok
       /\ \A i \in 1..(Len(calls) - 1) :
             (/\ calls[i].op = "destroy" /\ calls[i].ret.ok /\ FaultFree(calls[i])
              /\ calls[i + 1].op = "destroy" /\ FaultFree(calls[i + 1])) =>
                 /\ calls[i + 1].ret.ok
                 /\ calls[i + 1].after = calls[i].after

\* C29 (as claimed): for a managed syncer, an update of an existing resource
\* succeeds and a read after it has an empty diff; an update after a
\* successful update succeeds with the same value and leaves AWS the same;
\* for the trail, update does what create does.
C29_UpdateIdempotent ==
    IsManaged =>
       /\ \A i \in 1..Len(calls) :
             (/\ calls[i].op = "update" /\ FaultFree(calls[i])
              /\ calls[i].before.parent) =>
                 /\ calls[i].ret.ok
                 /\ read_answered(onEntry.resource_type, calls[i].after) # None
                 /\ syncer_diff(onEntry.resource_type,
                        read_answered(onEntry.resource_type, calls[i].after)[1]) = {}
       /\ \A i \in 1..(Len(calls) - 1) :
             (/\ calls[i].op = "update" /\ calls[i].ret.ok /\ FaultFree(calls[i])
              /\ calls[i + 1].op = "update" /\ FaultFree(calls[i + 1])) =>
                 /\ calls[i + 1].ret = calls[i].ret
                 /\ calls[i + 1].after = calls[i].after
       /\ onEntry.resource_type = "cloudtrail_trail" =>
             syncer_update("cloudtrail_trail", aws) = syncer_create("cloudtrail_trail", aws)

\* The syncers C30 names: the principal, its policy and the legal agreement.
NamedData == {"iam_user", "iam_user_policy", "baa_agreement"}

\* The label each of them puts in front of the read-only message.
DataLabel(t) ==
    IF t = "iam_user" THEN "IAM user"
    ELSE IF t = "iam_user_policy" THEN "IAM policy"
    ELSE "BAA agreement"

\* C30 (as claimed): the principal, the principal policy and the legal
\* agreement are Data-lifecycle, and every create, update and destroy on
\* them fails with the read-only-precondition error without any request.
C30_DataReadOnly ==
    onEntry.resource_type \in NamedData =>
       /\ onEntry.lifecycle = "Data"
       /\ \A i \in 1..Len(calls) :
             /\ calls[i].calls = <<>>
             /\ calls[i].ret = RetErr(ReadOnlyPrecondition(DataLabel(onEntry.resource_type)))
             /\ calls[i].after = calls[i].before

\* ===========================================================================
\* The model-agreement syncer (syncers/bedrock_model_agreement.rs)
\*
\* The variables are used as in the specification above: onEntry is one of
\* the two model-agreement specs, aws.parent says whether the catalogue lists
\* a model matching its prefix and aws.conf whether the agreement is accepted.
\* ===========================================================================

AgreementSpecs ==
    {ClariaManifest[i] : i \in {j \in 1..Len(ClariaManifest) :
        ClariaManifest[j].resource_type = "bedrock_model_agreement"}}

\* BedrockModelAgreementSyncer::read: list the models, pick a representative,
\* ask for its availability. No agreement is listed or accepted here.
agreement_read(w) ==
    LET lst(out) == Req("bedrock:ListFoundationModels", out)
        get(out) == Req("bedrock:GetFoundationModelAvailability", out)
    IN  {Did3(<<lst("err")>>, RetErr(ProvErr("Aws", "list")), w)}
        \cup (IF ~w.parent
              THEN {Did3(<<lst("ok")>>, RetOk(Some("unavailable")), w)}
              ELSE {Did3(<<lst("ok"), get("err")>>, RetOk(Some("unknown")), w),
                    Did3(<<lst("ok"), get("ok")>>,
                         RetOk(Some(IF w.conf = "desired" THEN "accepted" ELSE "pending")),
                         w)})

\* BedrockModelAgreementSyncer::diff.
agreement_diff(actual) ==
    IF actual = "accepted" THEN <<>>
    ELSE << [field |-> "agreement", expected |-> "accepted", actual |-> actual] >>

\* BedrockModelAgreementSyncer::create, also when no model matches the
\* prefix: the loop body then never runs.
agreement_create(w) ==
    IF w.parent THEN AcceptAgreements(w)
    ELSE {Did3(<<Req("bedrock:ListFoundationModels", "err")>>,
               RetErr(ProvErr("Aws", "list")), w),
          Did3(<<Req("bedrock:ListFoundationModels", "ok")>>, RetOk("desired"), w)}

InitAgreement ==
    /\ onEntry \in AgreementSpecs
    /\ aws \in {World(FALSE, "none"), World(TRUE, "none"), World(TRUE, "desired")}
    /\ calls = <<>>
    /\ pc = "idle"
    /\ state = None
    /\ result = None
    /\ entries = <<>>
    /\ idx = 0
    /\ nMut = 0
    /\ replan = None
    /\ local = None
    /\ remote = None
    /\ planSrc = "caller"
    /\ phase = "none"
    /\ nFlush = 0
    /\ persistedMut = 0

AgreementRead == \E d \in agreement_read(aws) : Invoke("read", d)

AgreementCreate == \E d \in agreement_create(aws) : Invoke("create", d)

\* update is `self.create()`.
AgreementUpdate == \E d \in agreement_create(aws) : Invoke("update", d)

AgreementDestroy ==
    \E d \in syncer_destroy("bedrock_model_agreement", aws) : Invoke("destroy", d)

NextAgreement ==
    \/ AgreementRead
    \/ AgreementCreate
    \/ AgreementUpdate
    \/ AgreementDestroy

SpecAgreement == InitAgreement /\ [][NextAgreement]_vars

\* An operation that sent a request accepting an agreement.
TriedToAccept(c) ==
    \E i \in 1..Len(c.calls) : c.calls[i].api = "bedrock:CreateFoundationModelAgreement"

\* C31 (as claimed): a read of the model-agreement syncer attempts the
\* acceptance: it returns accepted when the acceptance succeeds or the
\* agreement was accepted already, leaving the agreement accepted, and
\* pending when any request failed; it returns nothing else.
C31_ReadIsAcceptance ==
    \A i \in 1..Len(calls) :
        (calls[i].op = "read" /\ calls[i].before.parent) =>
            /\ calls[i].ret \in {RetOk(Some("accepted")), RetOk(Some("pending"))}
            /\ ~FaultFree(calls[i]) => calls[i].ret = RetOk(Some("pending"))
            /\ FaultFree(calls[i]) =>
                  /\ calls[i].ret = RetOk(Some("accepted"))
                  /\ calls[i].after.conf = "desired"

\* ===========================================================================
\* The permission document (account_setup.rs claria_policy_document) against
\* the principal-policy precondition (syncers/iam_user_policy.rs)
\*
\* In this specification aws is the IAM side of the policy: whether
\* ClariaProvisionerAccess is attached to claria-admin and the document of
\* its default version (None when it has none that parses); state is the
\* ProvisionerState plan() is called with; calls records the operations.
\* ===========================================================================

\* Operations in one behaviour.
MaxPolicyOps == 2

\* ResourceSpec.iam_actions of the manifest's specs, by resource type.
iam_actions(t) ==
    IF t = "iam_user" THEN {"iam:GetUser"}
    ELSE IF t = "iam_user_policy"
    THEN {"iam:ListAttachedUserPolicies", "iam:GetPolicyVersion"}
    ELSE IF t = "baa_agreement" THEN {"artifact:ListCustomerAgreements"}
    ELSE IF t = "s3_bucket"
    THEN {"s3:HeadBucket", "s3:CreateBucket", "s3:DeleteBucket", "s3:ListObjectsV2",
          "s3:DeleteObject"}
    ELSE IF t = "s3_bucket_versioning"
    THEN {"s3:GetBucketVersioning", "s3:PutBucketVersioning"}
    ELSE IF t = "s3_bucket_encryption"
    THEN {"s3:GetBucketEncryption", "s3:PutBucketEncryption"}
    ELSE IF t = "s3_bucket_public_access_block"
    THEN {"s3:GetPublicAccessBlock", "s3:PutPublicAccessBlock"}
    ELSE IF t = "s3_bucket_policy" THEN {"s3:GetBucketPolicy", "s3:PutBucketPolicy"}
    ELSE IF t = "cloudtrail_trail"
    THEN {"cloudtrail:GetTrail", "cloudtrail:CreateTrail", "cloudtrail:DeleteTrail"}
    ELSE IF t = "cloudtrail_trail_logging"
    THEN {"cloudtrail:GetTrailStatus", "cloudtrail:StartLogging", "cloudtrail:StopLogging"}
    ELSE {"bedrock:ListFoundationModels", "bedrock:GetFoundationModelAvailability",
          "bedrock:ListFoundationModelAgreementOffers",
          "bedrock:CreateFoundationModelAgreement"}

\* build_syncers: the union of iam_actions over the manifest's specs.
required_actions ==
    UNION {iam_actions(ClariaManifest[i].resource_type) : i \in 1..Len(ClariaManifest)}

\* One statement of a policy document. Action is a JSON string, an array of
\* strings, or something else.
Statement(effect, kind, items) ==
    [Effect |-> effect, Action |-> [kind |-> kind, items |-> items]]

\* claria_policy_document(): six Allow statements.
claria_policy_document ==
    << Statement("Allow", "Array",
           {"s3:HeadBucket", "s3:CreateBucket", "s3:DeleteBucket",
            "s3:GetBucketVersioning", "s3:PutBucketVersioning",
            "s3:GetEncryptionConfiguration", "s3:PutEncryptionConfiguration",
            "s3:GetBucketPublicAccessBlock", "s3:PutBucketPublicAccessBlock",
            "s3:GetBucketPolicy", "s3:PutBucketPolicy", "s3:GetObject", "s3:PutObject",
            "s3:DeleteObject", "s3:ListBucket"}),
       Statement("Allow", "Array",
           {"cloudtrail:GetTrail", "cloudtrail:GetTrailStatus", "cloudtrail:CreateTrail",
            "cloudtrail:StartLogging", "cloudtrail:StopLogging", "cloudtrail:DeleteTrail"}),
       Statement("Allow", "Array",
           {"bedrock:ListFoundationModels", "bedrock:ListInferenceProfiles",
            "bedrock:GetFoundationModelAvailability",
            "bedrock:ListFoundationModelAgreementOffers",
            "bedrock:CreateFoundationModelAgreement", "bedrock:InvokeModel",
            "bedrock:InvokeModelWithResponseStream"}),
       Statement("Allow", "Array",
           {"aws-marketplace:ViewSubscriptions", "aws-marketplace:Subscribe"}),
       Statement("Allow", "Array",
           {"iam:GetUser", "iam:ListAttachedUserPolicies", "iam:GetPolicy",
            "iam:GetPolicyVersion"}),
       Statement("Allow", "Array", {"sts:GetCallerIdentity"}) >>

\* IamUserPolicySyncer::read, the extraction of current_actions: the Action
\* of every Allow statement, a string or an array of strings.
current_actions(document) ==
    UNION {document[i].Action.items :
              i \in {j \in 1..Len(document) :
                        /\ document[j].Effect = "Allow"
                        /\ document[j].Action.kind \in {"String", "Array"}}}

PolicyWorld(attached, document) == [attached |-> attached, document |-> document]

\* IamUserPolicySyncer::read.
policy_read(w) ==
    LET lap(out) == Req("iam:ListAttachedUserPolicies", out)
        gp(out)  == Req("iam:GetPolicy", out)
        gpv(out) == Req("iam:GetPolicyVersion", out)
        failed(m) == RetErr(ProvErr("Aws", m))
    IN  {Did3(<<lap("err")>>, failed("iam:ListAttachedUserPolicies failed"), w)}
        \cup (IF ~w.attached
              THEN {Did3(<<lap("ok")>>, RetOk(None), w)}
              ELSE {Did3(<<lap("ok"), gp("err")>>, failed("iam:GetPolicy failed"), w),
                    Did3(<<lap("ok"), gp("ok"), gpv("err")>>,
                         failed("iam:GetPolicyVersion failed"), w),
                    Did3(<<lap("ok"), gp("ok"), gpv("ok")>>,
                         IF w.document = None THEN RetOk(None)
                         ELSE RetOk(Some([policy_attached |-> TRUE,
                                          policy_document |-> w.document[1],
                                          current_actions |->
                                              current_actions(w.document[1])])),
                         w)})

\* IamUserPolicySyncer::diff: the required actions the document lacks.
policy_diff(actual) ==
    LET missing == required_actions \ actual.current_actions
    IN  IF missing = {} THEN <<>>
        ELSE << [field |-> "iam_actions", expected |-> required_actions,
                 actual |-> missing] >>

\* The entry plan() builds from a read result and the drift diff reported
\* (orchestrate.rs 30-91).
plan_entry(spec, actual, drift, st) ==
    IF spec.lifecycle = "Data" /\ actual = None
    THEN PlanEntry(spec, "PreconditionFailed", "Drift", <<>>)
    ELSE IF spec.lifecycle = "Data"
    THEN PlanEntry(spec, IF drift = <<>> THEN "Ok" ELSE "PreconditionFailed",
                   DriftCause(st, drift), drift)
    ELSE IF actual = None
    THEN PlanEntry(spec, "Create", CreateCause(spec, st), <<>>)
    ELSE PlanEntry(spec, IF drift = <<>> THEN "Ok" ELSE "Modify",
                   DriftCause(st, drift), drift)

\* The manifest's spec of a resource type (the first, for the agreements).
SpecOfType(t) ==
    ClariaManifest[CHOOSE i \in 1..Len(ClariaManifest) :
        /\ ClariaManifest[i].resource_type = t
        /\ \A j \in 1..(i - 1) : ClariaManifest[j].resource_type # t]

\* Statements an administrator may have left in the policy before.
OlderStatements ==
    {Statement("Allow", "String", {"iam:GetUser"}),
     Statement("Deny", "Array", required_actions),
     Statement("Allow", "Array", required_actions),
     Statement("Allow", "Array", required_actions \ {"s3:ListObjectsV2"}),
     Statement("Allow", "Other", {})}

OlderDocuments ==
    {<<>>} \cup {<<s>> : s \in OlderStatements}
           \cup {<<s, t>> : s \in OlderStatements, t \in OlderStatements}

InitPolicy ==
    /\ aws \in {PolicyWorld(FALSE, None)}
               \cup {PolicyWorld(a, Some(d)) : a \in BOOLEAN, d \in OlderDocuments}
               \cup {PolicyWorld(TRUE, None)}
    /\ state \in {DefaultState, ProvisionerState(EmptyMap, Some(VERSION), "", "")}
    /\ calls = <<>>
    /\ pc = "idle"
    /\ result = None
    /\ entries = <<>>
    /\ idx = 0
    /\ nMut = 0
    /\ replan = None
    /\ local = None
    /\ remote = None
    /\ planSrc = "caller"
    /\ phase = "none"
    /\ nFlush = 0
    /\ persistedMut = 0
    /\ onEntry = SpecOfType("iam_user_policy")

PolicyOp(op, ret, w) ==
    /\ Len(calls) < MaxPolicyOps
    /\ calls' = Append(calls, [op |-> op, before |-> aws, ret |-> ret, after |-> w])
    /\ aws' = w
    /\ UNCHANGED <<state, onEntry, pc, result, entries, idx, nMut, replan, local,
                   remote, planSrc, phase, nFlush, persistedMut>>

\* bootstrap_account, steps create_policy and attach_policy, both succeeding:
\* the document is the policy's default version and the policy is attached.
BootstrapPolicy ==
    PolicyOp("bootstrap", RetOk("unit"), PolicyWorld(TRUE, Some(claria_policy_document)))

\* create_policy fails, or attach_policy fails after it.
BootstrapPolicyFails ==
    \/ PolicyOp("bootstrap", RetErr(ProvErr("Aws", "iam:CreatePolicy failed")), aws)
    \/ PolicyOp("bootstrap", RetErr(ProvErr("Aws", "iam:AttachUserPolicy failed")),
                PolicyWorld(aws.attached, Some(claria_policy_document)))

\* plan(), the iteration for the principal-policy syncer: read, then diff.
PlanPolicy ==
    \E d \in policy_read(aws) :
        PolicyOp("plan",
                 IF ~d.ret.ok THEN d.ret
                 ELSE RetOk(plan_entry(onEntry, d.ret.val,
                                       IF d.ret.val = None THEN <<>>
                                       ELSE policy_diff(d.ret.val[1]),
                                       state)),
                 d.world)

NextPolicy ==
    \/ BootstrapPolicy
    \/ BootstrapPolicyFails
    \/ PlanPolicy

SpecPolicy == InitPolicy /\ [][NextPolicy]_vars

\* C32 (as claimed): after a successful bootstrap the actions the policy
\* document allows are exactly required_actions, and a plan that follows it
\* reports the principal-policy precondition Ok with cause InSync.
C32_PolicyGrantsRequired ==
    \A i \in 1..Len(calls) :
        (calls[i].op = "bootstrap" /\ calls[i].ret.ok) =>
            /\ current_actions(calls[i].after.document[1]) = required_actions
            /\ \A j \in (i + 1)..Len(calls) :
                  (/\ calls[j].op = "plan" /\ calls[j].ret.ok
                   /\ \A k \in (i + 1)..(j - 1) : calls[k].op = "plan") =>
                      /\ calls[j].ret.val.action = "Ok"
                      /\ calls[j].ret.val.cause = "InSync"

\* ===========================================================================
\* plan() and execute() over the manifest of Manifest::claria, with the
\* syncers build_syncers makes for it
\*
\* In this specification aws maps the position of each spec in the manifest
\* to how the resource is configured in AWS ("none": not there), state is the
\* caller's ProvisionerState, entries the last plan, calls the plan() calls
\* and the syncer operations of execute() in order, phase the operation list
\* of the running execute(), idx the position in it, nMut the number of
\* plan() calls so far, local and remote the state last flushed.
\* ===========================================================================

\* plan() calls in one behaviour.
MaxManifestRuns == 2

SpecAt(i) == ClariaManifest[i]

TypeAt(i) == ClariaManifest[i].resource_type

IndexOf(t) ==
    CHOOSE i \in 1..Len(ClariaManifest) :
        /\ TypeAt(i) = t
        /\ \A j \in 1..(i - 1) : TypeAt(j) # t

\* The spec whose object a syncer's requests name: the bucket for the
\* per-bucket syncers, the trail for the logging toggle.
Owner(i) ==
    IF TypeAt(i) = "cloudtrail_trail_logging" THEN IndexOf("cloudtrail_trail")
    ELSE IF TypeAt(i) \in OwnsSetting THEN IndexOf("s3_bucket")
    ELSE i

\* The specs whose resource the spec at i needs in AWS: the bucket named by
\* the per-bucket specs and by the trail's desired s3_bucket, the bucket
\* policy whose two statements admit cloudtrail.amazonaws.com, the trail
\* named by the logging toggle.
DependsOn(i) ==
    IF TypeAt(i) = "cloudtrail_trail"
    THEN {IndexOf("s3_bucket"), IndexOf("s3_bucket_policy")}
    ELSE IF Owner(i) # i THEN {Owner(i)}
    ELSE {}

\* AWS as the syncer at position i meets it.
WorldAt(acct, i) ==
    IF TypeAt(i) \in OwnsObject \cup OwnsSetting
    THEN World(acct[Owner(i)] # "none", acct[i])
    ELSE World(TRUE, acct[i])

\* JSON values of drift records.
JNull == [t |-> "null", v |-> ""]

JStr(s) == [t |-> "string", v |-> s]

\* S3BucketEncryptionSyncer::read: {"sse_algorithm": algo}, null when the
\* bucket has no default rule or the request fails.
sse_algorithm(conf) ==
    IF conf = "desired" THEN JStr("AES256")
    ELSE IF conf = "other" THEN JStr("aws:kms")
    ELSE JNull

\* S3BucketEncryptionSyncer::diff: `.as_str().unwrap_or("")` against the
\* desired algorithm.
encryption_diff(algo) ==
    LET actual_algo == IF algo.t = "string" THEN algo.v ELSE ""
    IN  IF actual_algo = "AES256" THEN <<>>
        ELSE << [field |-> "sse_algorithm", expected |-> JStr("AES256"),
                 actual |-> JStr(actual_algo)] >>

\* syncer.diff(actual) as a list of FieldDrift.
manifest_diff(t, conf) ==
    IF t = "s3_bucket_encryption" THEN encryption_diff(sse_algorithm(conf))
    ELSE IF syncer_diff(t, conf) = {} THEN <<>>
    ELSE << [field |-> t, expected |-> JStr("desired"), actual |-> JStr(conf)] >>

\* Syncers whose read() returns an error of its request.
ReadCanFail == {"iam_user", "iam_user_policy", "baa_agreement", "bedrock_model_agreement"}

\* syncer.read() of the spec at i; fault is the position whose read request
\* meets a failure (0: none). The bucket, versioning, trail and logging reads
\* turn any error into None, the encryption, public-access-block and bucket
\* policy reads into Some of the unconfigured value.
manifest_read(i, acct, fault) ==
    IF fault # i THEN ReadOk(read_answered(TypeAt(i), WorldAt(acct, i)))
    ELSE IF TypeAt(i) \in ReadCanFail THEN ReadErr
    ELSE IF TypeAt(i) \in {"s3_bucket_encryption", "s3_bucket_public_access_block",
                           "s3_bucket_policy"}
    THEN ReadOk(Some("none"))
    ELSE ReadOk(None)

\* plan(syncers, state) when every read returned Ok. The orphan pass adds
\* nothing: state.resources holds addresses of the manifest only.
manifest_plan(st, acct, fault) ==
    [i \in 1..Len(ClariaManifest) |->
        LET actual == manifest_read(i, acct, fault).value
        IN  plan_entry(SpecAt(i), actual,
                       IF actual = None THEN <<>> ELSE manifest_diff(TypeAt(i), actual[1]),
                       st)]

\* The operations of execute(): the Create entries in plan order, then the
\* Modify entries in plan order.
ExecOps(es) ==
    LET pick(action, op) ==
            SelectSeq([i \in 1..Len(es) |-> [op |-> op, i |-> i, action |-> es[i].action]],
                      LAMBDA e : e.action = action)
    IN  pick("Create", "create") \o pick("Modify", "update")

\* Accounts plan() may meet: a setting is configured only where its bucket
\* or trail exists; the principal comes with its policy, the two model
\* agreements are accepted together.
Accounts ==
    {[i \in 1..Len(ClariaManifest) |->
         IF TypeAt(i) \in {"iam_user", "iam_user_policy"} THEN user
         ELSE IF TypeAt(i) = "baa_agreement" THEN baa
         ELSE IF TypeAt(i) = "s3_bucket" THEN bucket
         ELSE IF TypeAt(i) = "s3_bucket_versioning"
         THEN (IF bucket = "none" THEN "none" ELSE vers)
         ELSE IF TypeAt(i) = "s3_bucket_encryption"
         THEN (IF bucket = "none" THEN "none" ELSE enc)
         ELSE IF TypeAt(i) \in {"s3_bucket_public_access_block", "s3_bucket_policy"}
         THEN (IF bucket = "none" THEN "none" ELSE pol)
         ELSE IF TypeAt(i) = "cloudtrail_trail" THEN trail
         ELSE IF TypeAt(i) = "cloudtrail_trail_logging"
         THEN (IF trail = "none" THEN "none" ELSE logging)
         ELSE models] :
       user \in {"none", "desired"}, baa \in {"none", "desired"},
       bucket \in {"none", "desired"}, vers \in {"none", "desired"},
       enc \in {"none", "other", "desired"}, pol \in {"none", "desired"},
       trail \in {"none", "other", "desired"}, logging \in {"none", "desired"},
       models \in {"none", "desired"}}

\* Positions whose read request may meet a failure in a plan() call: none,
\* the principal, the bucket, the bucket's encryption.
ReadFaults == {0, IndexOf("iam_user"), IndexOf("s3_bucket"), IndexOf("s3_bucket_encryption")}

InitManifest ==
    /\ aws \in Accounts
    /\ state \in {DefaultState, ProvisionerState(EmptyMap, Some(VERSION), "", "")}
    /\ entries = <<>>
    /\ calls = <<>>
    /\ pc = "idle"
    /\ phase = <<>>
    /\ idx = 0
    /\ nMut = 0
    /\ result = None
    /\ local = state
    /\ remote = state
    /\ onEntry = state
    /\ replan = None
    /\ planSrc = "planner"
    /\ nFlush = 0
    /\ persistedMut = 0

ManifestCall(op, i, ret) == [op |-> op, i |-> i, before |-> aws, ret |-> ret]

\* plan() returns Ok(entries).
ManifestPlanOk ==
    /\ pc = "idle"
    /\ nMut < MaxManifestRuns
    /\ \E fault \in ReadFaults :
          /\ \A i \in 1..Len(ClariaManifest) : manifest_read(i, aws, fault).ok
          /\ entries' = manifest_plan(state, aws, fault)
          /\ calls' = Append(calls, ManifestCall("plan", fault, RetOk("entries")))
    /\ nMut' = nMut + 1
    /\ pc' = "planned"
    /\ UNCHANGED <<aws, state, phase, idx, result, local, remote, onEntry, replan,
                   planSrc, nFlush, persistedMut>>

\* A read() returns Err: `syncer.read().await?`.
ManifestPlanErr ==
    /\ pc = "idle"
    /\ nMut < MaxManifestRuns
    /\ \E fault \in ReadFaults \ {0} :
          /\ ~manifest_read(fault, aws, fault).ok
          /\ calls' = Append(calls, ManifestCall("plan", fault,
                                                 RetErr(ProvErr("Aws", "read"))))
    /\ nMut' = nMut + 1
    /\ result' = RetErr(ProvErr("Aws", "read"))
    /\ UNCHANGED <<aws, state, entries, pc, phase, idx, local, remote, onEntry, replan,
                   planSrc, nFlush, persistedMut>>

\* execute() is entered with the plan.
ManifestExecuteBegin ==
    /\ pc = "planned"
    /\ phase' = ExecOps(entries)
    /\ idx' = 1
    /\ pc' = IF ExecOps(entries) = <<>> THEN "stamp" ELSE "op"
    /\ onEntry' = state
    /\ UNCHANGED <<aws, state, entries, calls, nMut, result, local, remote, replan,
                   planSrc, nFlush, persistedMut>>

\* What the syncer of the current operation may do.
OpOutcomes ==
    IF phase[idx].op = "create"
    THEN syncer_create(TypeAt(phase[idx].i), WorldAt(aws, phase[idx].i))
    ELSE syncer_update(TypeAt(phase[idx].i), WorldAt(aws, phase[idx].i))

\* state after the operation returned props: a Create inserts a fresh
\* record, a Modify changes the record if there is one.
Recorded(st, op, spec, props) ==
    IF op = "create"
    THEN [st EXCEPT !.resources = insert(@, addr(spec), ResourceState(spec, "Created", props))]
    ELSE IF addr(spec) \in DOMAIN st.resources
    THEN [st EXCEPT !.resources[addr(spec)].status = "Updated",
                    !.resources[addr(spec)].properties = props]
    ELSE st

\* The syncer's create or update returns Err: `?` returns it.
ManifestOpFails ==
    /\ pc = "op"
    /\ \E d \in OpOutcomes :
          /\ ~d.ret.ok
          /\ aws' = [aws EXCEPT ![phase[idx].i] = d.world.conf]
          /\ calls' = Append(calls, ManifestCall(phase[idx].op, phase[idx].i, d.ret))
          /\ result' = d.ret
    /\ pc' = "idle"
    /\ UNCHANGED <<state, entries, phase, idx, nMut, local, remote, onEntry, replan,
                   planSrc, nFlush, persistedMut>>

\* The operation succeeds, the state is updated and flushed.
ManifestOpOk ==
    /\ pc = "op"
    /\ \E d \in OpOutcomes :
          /\ d.ret.ok
          /\ serializable(Recorded(state, phase[idx].op, SpecAt(phase[idx].i), d.ret.val))
          /\ aws' = [aws EXCEPT ![phase[idx].i] = d.world.conf]
          /\ calls' = Append(calls, ManifestCall(phase[idx].op, phase[idx].i, d.ret))
          /\ state' = Recorded(state, phase[idx].op, SpecAt(phase[idx].i), d.ret.val)
    /\ local' = state'
    /\ remote' = state'
    /\ idx' = idx + 1
    /\ pc' = IF idx = Len(phase) THEN "stamp" ELSE "op"
    /\ UNCHANGED <<entries, phase, nMut, result, onEntry, replan, planSrc, nFlush,
                   persistedMut>>

\* The operation succeeds, the state is updated, flush() returns Err.
ManifestOpFlushFails ==
    /\ pc = "op"
    /\ \E d \in OpOutcomes :
          /\ d.ret.ok
          /\ aws' = [aws EXCEPT ![phase[idx].i] = d.world.conf]
          /\ calls' = Append(calls, ManifestCall(phase[idx].op, phase[idx].i, d.ret))
          /\ state' = Recorded(state, phase[idx].op, SpecAt(phase[idx].i), d.ret.val)
    /\ result' = RetErr(ProvErr("State", "flush"))
    /\ pc' = "idle"
    /\ UNCHANGED <<entries, phase, idx, nMut, local, remote, onEntry, replan, planSrc,
                   nFlush, persistedMut>>

\* The stamp and the last flush succeed: execute() returns Ok(()).
ManifestStampOk ==
    /\ pc = "stamp"
    /\ serializable(state)
    /\ state' = [state EXCEPT !.manifest_version = Some(VERSION)]
    /\ local' = state'
    /\ remote' = state'
    /\ result' = RetOk("unit")
    /\ pc' = "idle"
    /\ UNCHANGED <<aws, entries, calls, phase, idx, nMut, onEntry, replan, planSrc,
                   nFlush, persistedMut>>

\* The stamp is made, the last flush returns Err.
ManifestStampFlushFails ==
    /\ pc = "stamp"
    /\ state' = [state EXCEPT !.manifest_version = Some(VERSION)]
    /\ result' = RetErr(ProvErr("State", "flush"))
    /\ pc' = "idle"
    /\ UNCHANGED <<aws, entries, calls, phase, idx, nMut, local, remote, onEntry,
                   replan, planSrc, nFlush, persistedMut>>

NextManifest ==
    \/ ManifestPlanOk
    \/ ManifestPlanErr
    \/ ManifestExecuteBegin
    \/ ManifestOpFails
    \/ ManifestOpOk
    \/ ManifestOpFlushFails
    \/ ManifestStampOk
    \/ ManifestStampFlushFails

SpecManifest == InitManifest /\ [][NextManifest]_vars

\* The last operation was a plan() whose reads were all answered.
PlannedAnswered ==
    /\ pc = "planned"
    /\ calls[Len(calls)].op = "plan"
    /\ calls[Len(calls)].i = 0

\* Nothing of the manifest is in AWS.
EmptyAccount == \A i \in 1..Len(ClariaManifest) : aws[i] = "none"

WithAction(es, action) == {i \in 1..Len(es) : es[i].action = action}

\* C33 (as claimed): on a fresh account, with an empty state, plan returns
\* 11 entries: PreconditionFailed for the principal and the legal agreement
\* and for no other, Create with cause FirstProvision for the other 9.
C33_FreshAccount ==
    (PlannedAnswered /\ EmptyAccount /\ state = DefaultState) =>
        /\ Len(entries) = 11
        /\ {TypeAt(i) : i \in WithAction(entries, "PreconditionFailed")}
               = {"iam_user", "baa_agreement"}
        /\ Cardinality(WithAction(entries, "PreconditionFailed")) = 2
        /\ Cardinality(WithAction(entries, "Create")) = 9
        /\ \A i \in WithAction(entries, "Create") : entries[i].cause = "FirstProvision"

EncryptionAt == IndexOf("s3_bucket_encryption")

\* execute() has updated the encryption since the last plan() but one.
EncryptionUpdated ==
    \E k \in 1..(Len(calls) - 1) :
        /\ calls[k].op = "update" /\ calls[k].i = EncryptionAt /\ calls[k].ret.ok
        /\ \A m \in (k + 1)..(Len(calls) - 1) : calls[m].op # "plan"

\* C34 (as claimed): with a current manifest_version and a bucket without
\* default encryption, plan has exactly one entry for the encryption spec:
\* Modify, cause Drift, drift [{sse_algorithm, expected "AES256", actual
\* null}]; and the plan after an execute that updated it reports Ok/InSync.
C34_EncryptionDrift ==
    /\ (/\ PlannedAnswered
        /\ state.manifest_version = Some(VERSION)
        /\ aws[IndexOf("s3_bucket")] # "none"
        /\ aws[EncryptionAt] = "none") =>
           /\ {i \in 1..Len(entries) : entries[i].spec.resource_type = "s3_bucket_encryption"}
                  = {EncryptionAt}
           /\ entries[EncryptionAt].action = "Modify"
           /\ entries[EncryptionAt].cause = "Drift"
           /\ entries[EncryptionAt].drift =
                  << [field |-> "sse_algorithm", expected |-> JStr("AES256"),
                      actual |-> JNull] >>
    /\ (PlannedAnswered /\ EncryptionUpdated) =>
           /\ entries[EncryptionAt].action = "Ok"
           /\ entries[EncryptionAt].cause = "InSync"

\* The positions of a resource type in the manifest.
PositionsOf(t) == {i \in 1..Len(ClariaManifest) : TypeAt(i) = t}

\* The order the manifest is said to have, as groups of resource types.
ClaimedOrder ==
    << {"iam_user", "iam_user_policy"}, {"baa_agreement"}, {"s3_bucket"},
       {"s3_bucket_versioning", "s3_bucket_encryption", "s3_bucket_public_access_block",
        "s3_bucket_policy"},
       {"cloudtrail_trail"}, {"cloudtrail_trail_logging"}, {"bedrock_model_agreement"} >>

\* C35 (as claimed): the manifest lists the principal and its policy, then
\* the legal agreement, the bucket, the per-bucket specs, the trail, the
\* logging toggle and the model agreements; every spec comes after the specs
\* it depends on; and when execute() invokes create for a spec, every spec
\* it depends on is in AWS.
C35_DependencyOrder ==
    /\ \A g, h \in 1..Len(ClaimedOrder) : g < h =>
          \A s \in ClaimedOrder[g], t \in ClaimedOrder[h] :
              \A i \in PositionsOf(s), j \in PositionsOf(t) : i < j
    /\ \A i \in 1..Len(ClariaManifest) : \A j \in DependsOn(i) : j < i
    /\ \A k \in 1..Len(calls) :
          calls[k].op = "create" =>
              \A j \in DependsOn(calls[k].i) : calls[k].before[j] # "none"

\* ===========================================================================
\* create_policy and update_policy_document on the versions of the policy
\*
\* The same two functions as in the bootstrap specification, here on the
\* list of versions rather than their number. aws is the list of versions of
\* ClariaProvisionerAccess as ListPolicyVersions returns it (empty: the
\* policy does not exist), calls the create_policy calls so far.
\* ===========================================================================

\* create_policy calls in one behaviour.
MaxPolicyRuns == 2

\* Creation times of the versions an account starts with.
MaxDate == 2

PolicyVersion(id, date, default) == [id |-> id, date |-> date, default |-> default]

\* `.filter(|v| !v.is_default_version()).min_by_key(|v| v.create_date()...)`:
\* the position of the first non-default version with the least creation
\* time. IAM reports whole seconds, for which the order of the formatted
\* strings is the order of the times.
oldest_newest(vs) ==
    LET nd == {i \in 1..Len(vs) : ~vs[i].default}
    IN  IF nd = {} THEN None
        ELSE Some(CHOOSE i \in nd : \A j \in nd :
                      \/ vs[i].date > vs[j].date
                      \/ vs[i].date = vs[j].date /\ i <= j)

oldest(vs) ==
    LET nd == {i \in 1..Len(vs) : ~vs[i].default}
    IN  IF nd = {} THEN None
        ELSE Some(CHOOSE i \in nd : \A j \in nd :
                      \/ vs[i].date < vs[j].date
                      \/ vs[i].date = vs[j].date /\ i <= j)

\* DeletePolicyVersion of the version at position i.
without(vs, i) == SubSeq(vs, 1, i - 1) \o SubSeq(vs, i + 1, Len(vs))

\* CreatePolicyVersion with set_as_default(true), accepted: IAM numbers the
\* new version past every earlier one.
with_new_default(vs, now) ==
    Append([i \in 1..Len(vs) |-> [vs[i] EXCEPT !.default = FALSE]],
           PolicyVersion(PolicyVersionCap + now, now, TRUE))

\* update_policy_document() on the versions vs at time now.
update_policy_document_versions(vs, now) ==
    LET cpv(out) == ApiCall("iam:CreatePolicyVersion", "source", out, None)
        lst(out) == ApiCall("iam:ListPolicyVersions", "source", out, None)
        del(out) == ApiCall("iam:DeletePolicyVersion", "source", out, None)
        o        == oldest(vs)
        pruned   == IF o = None THEN vs ELSE without(vs, o[1])
        tryDel   == IF o = None THEN <<>> ELSE <<del("ok")>>
    IN  {Did3(<<cpv("err")>>, RetErr(AwsError("iam:CreatePolicyVersion failed")), vs)}
        \cup
        (IF Len(vs) < PolicyVersionCap
         THEN {Did3(<<cpv("ok")>>, RetOk("unit"), with_new_default(vs, now))}
         ELSE {Did3(<<cpv("limit"), lst("err")>>,
                    RetErr(AwsError("iam:ListPolicyVersions failed")), vs),
               Did3(<<cpv("limit"), lst("ok")>> \o tryDel \o <<cpv("err")>>,
                    RetErr(AwsError("iam:CreatePolicyVersion (retry) failed")), pruned),
               IF Len(pruned) < PolicyVersionCap
               THEN Did3(<<cpv("limit"), lst("ok")>> \o tryDel \o <<cpv("ok")>>,
                         RetOk("unit"), with_new_default(pruned, now))
               ELSE Did3(<<cpv("limit"), lst("ok")>> \o tryDel \o <<cpv("limit")>>,
                         RetErr(AwsError("iam:CreatePolicyVersion (retry) failed")),
                         pruned)}
               \cup (IF o = None THEN {}
                     ELSE {Did3(<<cpv("limit"), lst("ok"), del("err")>>,
                                RetErr(AwsError("iam:DeletePolicyVersion failed")), vs)}))

\* create_policy() with the account id known, as bootstrap_account calls it.
create_policy_versions(vs, now) ==
    LET cp(out) == ApiCall("iam:CreatePolicy", "source", out, None)
        arn     == "arn:policy/" \o IAM_POLICY_NAME
    IN  {Did3(<<cp("err")>>, RetErr(AwsError("iam:CreatePolicy failed")), vs)}
        \cup
        (IF vs = <<>>
         THEN {Did3(<<cp("ok")>>, RetOk(arn), <<PolicyVersion(1, now, TRUE)>>)}
         ELSE {Did3(<<cp("conflict")>> \o u.calls,
                    IF u.ret.ok THEN RetOk(arn) ELSE u.ret, u.world) :
                  u \in update_policy_document_versions(vs, now)})

\* The versions a policy may have when bootstrap starts: none, one, one
\* below the cap, or the cap; one of them the default.
VersionLists ==
    {<<>>}
    \cup {[i \in 1..n |-> PolicyVersion(i, d[i], i = k)] :
            n \in {1, PolicyVersionCap - 1, PolicyVersionCap},
            k \in 1..PolicyVersionCap,
            d \in [1..PolicyVersionCap -> 1..MaxDate]}

InitVersions ==
    /\ aws \in {vs \in VersionLists : \E i \in 1..Len(vs) : vs[i].default}
               \cup {<<>>}
    /\ calls = <<>>
    /\ nMut = 0
    /\ pc = "idle"
    /\ state = None
    /\ result = None
    /\ entries = <<>>
    /\ idx = 0
    /\ replan = None
    /\ local = None
    /\ remote = None
    /\ planSrc = "caller"
    /\ phase = "none"
    /\ nFlush = 0
    /\ persistedMut = 0
    /\ onEntry = None

\* Step create_policy of one bootstrap_account run.
CreatePolicyStep ==
    /\ nMut < MaxPolicyRuns
    /\ \E d \in create_policy_versions(aws, MaxDate + 1 + nMut) :
          /\ calls' = Append(calls, [before |-> aws, calls |-> d.calls, ret |-> d.ret,
                                     after |-> d.world])
          /\ aws' = d.world
    /\ nMut' = nMut + 1
    /\ UNCHANGED <<pc, state, result, entries, idx, replan, local, remote, planSrc,
                   phase, nFlush, persistedMut, onEntry>>

NextVersions == CreatePolicyStep

SpecVersions == InitVersions /\ [][NextVersions]_vars

Ids(vs) == {vs[i].id : i \in 1..Len(vs)}

DefaultIds(vs) == {vs[i].id : i \in {j \in 1..Len(vs) : vs[j].default}}

Sent(c, api) == {i \in 1..Len(c.calls) : c.calls[i].api = api}

\* The version of vs with the given id is non-default and no non-default
\* version of vs is older.
IsOldestNonDefault(vs, id) ==
    \E i \in 1..Len(vs) :
        /\ vs[i].id = id /\ ~vs[i].default
        /\ \A j \in 1..Len(vs) : ~vs[j].default => vs[i].date <= vs[j].date

\* C36: a create_policy that finds the policy existing makes a new default
\* version; at the version cap it deletes exactly one version, the oldest
\* non-default one, and retries the version create once: at most two
\* CreatePolicyVersion and one DeletePolicyVersion request; the default
\* version is never deleted; a failed retry fails the step.
C36_PolicyVersionRetry ==
    \A k \in 1..Len(calls) :
        LET c == calls[k]
            deleted == Ids(c.before) \ Ids(c.after)
            created == Ids(c.after) \ Ids(c.before)
        IN  c.before # <<>> =>
              /\ Cardinality(Sent(c, "iam:CreatePolicyVersion")) <= 2
              /\ Cardinality(Sent(c, "iam:DeletePolicyVersion")) <= 1
              /\ Cardinality(deleted) <= 1
              /\ \A id \in deleted : IsOldestNonDefault(c.before, id)
              /\ DefaultIds(c.before) \cap deleted = {}
              /\ deleted # {} =>
                    /\ Len(c.before) = PolicyVersionCap
                    /\ c.calls[2].out = "limit"
              /\ c.ret.ok <=> (created # {} /\ DefaultIds(c.after) = created)
              /\ (FaultFree(c) /\ Len(c.before) < PolicyVersionCap) =>
                    c.ret.ok /\ deleted = {}
              /\ (FaultFree(c) /\ Len(c.before) = PolicyVersionCap) =>
                    c.ret.ok /\ Cardinality(deleted) = 1
              /\ (Cardinality(Sent(c, "iam:CreatePolicyVersion")) = 2
                  /\ c.calls[Len(c.calls)].out # "ok") => ~c.ret.ok

\* A create_policy at the cap that pruned a version which was not the first
\* listed and retried successfully.
C36_Witness ==
    \E k \in 1..Len(calls) :
        /\ Len(calls[k].before) = PolicyVersionCap
        /\ calls[k].ret.ok
        /\ Cardinality(Sent(calls[k], "iam:DeletePolicyVersion")) = 1
        /\ calls[k].before[1].id \in Ids(calls[k].after)
        /\ \E i \in 1..PolicyVersionCap :
              ~calls[k].before[i].default /\ calls[k].before[i].date > 1

\* ===========================================================================
\* execute(): what it records and what it leaves alone (specification Spec)
\* ===========================================================================

\* The plan has one entry for the address of entry i.
SoleEntry(i) ==
    \A j \in 1..Len(entries) : addr(entries[j].spec) = addr(entries[i].spec) => j = i

\* C37 (as claimed): after an execute that returned Ok, every address with
\* a Create or Modify entry has a record with the properties the create or
\* update returned and status Created or Updated, also where a Modify found
\* no record; no address with a Delete entry has one.
C37_RecordsAfterOk ==
    pc = "done" =>
        \A i \in 1..Len(entries) :
            LET a == addr(entries[i].spec)
            IN  SoleEntry(i) =>
                  /\ entries[i].action = "Create" =>
                        /\ a \in DOMAIN state.resources
                        /\ state.resources[a].status = "Created"
                        /\ state.resources[a].properties = "props_create"
                  /\ entries[i].action = "Modify" =>
                        /\ a \in DOMAIN state.resources
                        /\ state.resources[a].status = "Updated"
                        /\ state.resources[a].properties = "props_update"
                  /\ entries[i].action = "Delete" => a \notin DOMAIN state.resources

Actionable == {"Create", "Modify", "Delete"}

\* The addresses the plan has a Create, Modify or Delete entry for.
ActionableAddrs ==
    {addr(entries[i].spec) : i \in {j \in 1..Len(entries) : entries[j].action \in Actionable}}

\* The addresses whose record differs from the one execute() was entered with.
WrittenAddrs ==
    {a \in DOMAIN state.resources \cup DOMAIN onEntry.resources :
        \/ (a \in DOMAIN state.resources) # (a \in DOMAIN onEntry.resources)
        \/ /\ a \in DOMAIN state.resources
           /\ a \in DOMAIN onEntry.resources
           /\ state.resources[a] # onEntry.resources[a]}

CalledAddrs == {calls[k].addr : k \in 1..Len(calls)}

\* Entry i was acted on: its syncer was called, or (a Delete entry with no
\* syncer) its key is out of state.
ActedOn(i) ==
    IF HasSyncer(addr(entries[i].spec))
    THEN \E k \in 1..Len(calls) : calls[k].entry = i
    ELSE addr(entries[i].spec) \notin DOMAIN state.resources

C38_FrameState ==
    /\ \A k \in 1..Len(calls) :
          /\ calls[k].op \in {"create", "update", "destroy"}
          /\ entries[calls[k].entry].action \in Actionable
          /\ calls[k].addr = addr(entries[calls[k].entry].spec)
    /\ CalledAddrs \cup WrittenAddrs \subseteq ActionableAddrs
    /\ pc = "done" =>
          \A i \in 1..Len(entries) : entries[i].action \in Actionable => ActedOn(i)

\* C38: execute calls a syncer and writes a record only for the addresses
\* with a Create, Modify or Delete entry in the plan it was given, for each
\* of them when it returns Ok, never for an Ok or PreconditionFailed entry,
\* and it works on the plan it was given from entry to return.
C38_Frame ==
    /\ []C38_FrameState
    /\ [][pc \notin {"idle", "replanned"} => entries' = entries]_vars

\* An execute that returned Ok made a call and left the Ok and
\* PreconditionFailed entries of its plan alone.
C38_Witness ==
    /\ pc = "done"
    /\ calls # <<>>
    /\ \E i \in 1..Len(entries) : entries[i].action = "Ok"
    /\ \E i \in 1..Len(entries) : entries[i].action = "PreconditionFailed"

\* ===========================================================================
\* A caller's sequence of load, plan, execute and destroy_all on one
\* ProvisionerState
\*
\* In this specification the shared variables hold:
\*   state          the caller's ProvisionerState, with all four fields
\*   local, remote  the state files, as JSON documents (None: no file)
\*   entries        the plan the last plan() returned
\*   pc             idle | planned | op | stamp | flush_local | walk | done | error
\*   phase, idx     the loop position of execute() or of destroy_all()
\*   calls          every load and every syncer create/update/destroy, in order
\*   nFlush         the number of operations that have returned
\*   the others     as in execute()
\* ===========================================================================

\* Number of operations the caller runs one after the other.
MaxLifecycleOps == 3

DataAddrs == {addr(Syncers[i]) : i \in {j \in 1..Len(Syncers) : Syncers[j].lifecycle = "Data"}}

\* A legacy (v1) file holding the one record of type tag t.
LegacyDoc(t, id) ==
    JsonObject(Some([k \in {<<t>>} |-> JsonRecord(k, Some(<<id>>))]),
               None, Some("us-east-1"), Some("claria-data"))

\* What a sink can hold before the first load: nothing, a legacy file without
\* records, a legacy file recording the IAM user, or a file flush() wrote.
LifecycleFiles ==
    {None,
     Some(JsonObject(Some(EmptyMap), None, Some("us-east-1"), Some("claria-data"))),
     Some(LegacyDoc("iam_user", "claria-admin")),
     Some(to_vec_pretty(ProvisionerState(EmptyMap, Some(VERSION), "us-east-1", "claria-data")))}

\* The accounts the sequence starts on: a bucket that does not exist has no
\* encryption configuration.
LifecycleWorlds ==
    {w \in [SyncerAddrs -> AwsValues] :
        w[ResourceAddr("s3_bucket", "data")] = "absent" =>
            w[ResourceAddr("s3_bucket_encryption", "data")] = "absent"}

InitLifecycle ==
    /\ aws \in LifecycleWorlds
    /\ local \in LifecycleFiles
    /\ remote \in LifecycleFiles
    /\ local = None \/ remote = None \/ local = remote
    /\ state = DefaultState
    /\ entries = <<>>
    /\ planSrc = "planner"
    /\ pc = "idle"
    /\ phase = "none"
    /\ idx = 0
    /\ calls = <<>>
    /\ nFlush = 0
    /\ nMut = 0
    /\ persistedMut = 0
    /\ onEntry = state
    /\ result = "running"
    /\ replan = <<>>

\* The file is a v1 state file that records a resource.
RecordsV1(file) ==
    /\ file # None
    /\ file[1].kind = "object"
    /\ file[1].manifest_version = None
    /\ file[1].resources # None
    /\ DOMAIN file[1].resources[1] # {}

\* The log entry of a load: "load_v1" when a sink held a v1 file with a
\* record, which the load had to migrate.
LoadRecord(sinks, out) ==
    [entry |-> 0, addr |-> ResourceAddr("_state", "provisioner.json"),
     op |-> IF RecordsV1(sinks.local) \/ RecordsV1(sinks.remote) THEN "load_v1" ELSE "load",
     outcome |-> out.result, synced |-> TRUE]

\* persistence.load() is called and returns; on Ok its state replaces the
\* caller's.
LifecycleLoad ==
    /\ pc = "idle"
    /\ \E g \in IoOutcomes, r \in IoOutcomes, w \in WriteFaults, u \in IoOutcomes :
          LET out == load(Sinks(local, remote),
                          [get |-> g, read |-> r, write |-> w, upload |-> u])
          IN /\ state' = IF out.ret # None THEN out.ret[1] ELSE state
             /\ local' = out.sinks.local
             /\ remote' = out.sinks.remote
             /\ calls' = Append(calls, LoadRecord(Sinks(local, remote), out))
             /\ pc' = IF out.result = "Ok" THEN "done" ELSE "error"
             /\ result' = out.result
    /\ UNCHANGED <<aws, entries, planSrc, phase, idx, nFlush, nMut, persistedMut,
                   onEntry, replan>>

\* persistence.flush(state) inside execute() or destroy_all() returns Ok.
LifecycleFlushOk ==
    /\ pc = "flush_local"
    /\ \E w \in WriteFaults, u \in IoOutcomes :
          LET out == flush(state, Sinks(local, remote), [write |-> w, upload |-> u])
          IN /\ out.result = "Ok"
             /\ local' = out.sinks.local
             /\ remote' = out.sinks.remote
    /\ persistedMut' = nMut
    /\ IF phase \in {"loop", "final"}
       THEN DestroyAfterFlush /\ UNCHANGED phase
       ELSE AfterFlush
    /\ UNCHANGED <<aws, state, entries, planSrc, calls, nFlush, nMut, onEntry, replan>>

\* persistence.flush(state) returns Err: `?` returns it.
LifecycleFlushFails ==
    /\ pc = "flush_local"
    /\ \E w \in WriteFaults, u \in IoOutcomes :
          LET out == flush(state, Sinks(local, remote), [write |-> w, upload |-> u])
          IN /\ out.result # "Ok"
             /\ local' = out.sinks.local
             /\ remote' = out.sinks.remote
    /\ pc' = "error"
    /\ result' = "flush_err"
    /\ UNCHANGED <<aws, state, entries, planSrc, phase, idx, calls, nFlush, nMut,
                   persistedMut, onEntry, replan>>

\* destroy_all() is entered.
LifecycleDestroyBegin ==
    /\ pc \in {"idle", "planned"}
    /\ onEntry' = state
    /\ pc' = "walk"
    /\ phase' = "loop"
    /\ idx' = Len(Syncers)
    /\ UNCHANGED <<aws, state, local, remote, entries, planSrc, calls, nFlush, nMut,
                   persistedMut, result, replan>>

\* After the loop: state.resources.clear(); state.manifest_version = None.
LifecycleDestroyClear ==
    /\ pc = "walk"
    /\ idx = 0
    /\ state' = [state EXCEPT !.resources = EmptyMap, !.manifest_version = None]
    /\ phase' = "final"
    /\ pc' = "flush_local"
    /\ UNCHANGED <<aws, local, remote, entries, planSrc, idx, calls, nFlush, nMut,
                   persistedMut, onEntry, result, replan>>

\* The operation has returned; the caller goes on with the state it holds.
LifecycleReturn ==
    /\ pc \in {"done", "error"}
    /\ nFlush + 1 < MaxLifecycleOps
    /\ nFlush' = nFlush + 1
    /\ pc' = "idle"
    /\ phase' = "none"
    /\ idx' = 0
    /\ entries' = <<>>
    /\ result' = "running"
    /\ UNCHANGED <<aws, state, local, remote, planSrc, calls, nMut, persistedMut,
                   onEntry, replan>>

\* plan() builds a Create or Modify entry only for a registered syncer and a
\* Delete entry only for an address without one, and no state here holds
\* such an address: the ResourceNotFound exit and the delete loop of
\* execute() have nothing to run on (first conjunct of C39_DataNeverMutated).
NextLifecycle ==
    \/ LifecycleLoad
    \/ Plan
    \/ PlanReadError
    \/ ExecuteBegin
    \/ CreateOk
    \/ ModifyOk
    \/ SyncerFails
    \/ Stamp
    \/ LifecycleFlushOk
    \/ LifecycleFlushFails
    \/ LifecycleDestroyBegin
    \/ DestroySkip
    \/ DestroyOk
    \/ DestroyFails
    \/ LifecycleDestroyClear
    \/ LifecycleReturn

SpecLifecycle == InitLifecycle /\ [][NextLifecycle]_vars

ReturnedFresh(c) ==
    /\ c.op = "load"
    /\ c.result = "Ok"
    /\ c.ret = Some(DefaultState)
    /\ Did(c, "get_remote") => c.before.remote = None
    /\ Did(c, "read_local") => c.before.local = None
    /\ Did(c, "read_local") \/ Did(c, "read_local_failed")

\* C40 (as claimed): load returns the fresh empty state only when neither
\* sink holds a state object; a failed read of the remote object or of the
\* local file never makes it return the fresh state while a sink holds one.
C40_FreshOnlyWhenAbsent ==
    \A k \in 1..Len(calls) :
        ReturnedFresh(calls[k]) =>
            /\ calls[k].before.remote = None
            /\ calls[k].before.local = None

====
